---- MODULE Spec2Model ----
(***************************************************************************)
(* Personal-finance dashboard: CSV transaction parser, category            *)
(* classifier and insight generator                                        *)
(* (client/src/lib/utils/csv-parser.ts and the server's sync routine).     *)
(*                                                                         *)
(* Representation.  A JavaScript string is a sequence of one-character     *)
(* strings, so splitting, trimming, quoting and substring search are       *)
(* computed character by character.  A JavaScript number that holds money  *)
(* is an integer count of hundredths (15.99 is 1599).  A Date is a record  *)
(* [y, m, d] with m in 1..12.                                              *)
(***************************************************************************)
EXTENDS Integers, Sequences, FiniteSets, TLC

VARIABLES
  csvData, accountId, lines, headers, format, i, result, pc,
  batchIn, batchOut, catResults, catPc,
  insTransactions, insAccounts, insights, insPc,
  recTransactions, recurring, recPc,
  csvTransactions,
  heap, pureArgs, pureLog,
  storage, plaid, requests

vars == <<csvData, accountId, lines, headers, format, i, result, pc,
          batchIn, batchOut, catResults, catPc,
          insTransactions, insAccounts, insights, insPc,
          recTransactions, recurring, recPc,
          csvTransactions,
          heap, pureArgs, pureLog,
          storage, plaid, requests>>

csvVars == <<csvData, accountId, lines, headers, format, i, result, pc>>
catVars == <<batchIn, batchOut, catResults, catPc>>
insVars == <<insTransactions, insAccounts, insights, insPc>>
recVars == <<recTransactions, recurring, recPc>>
rtVars == <<csvTransactions>>
pureVars == <<heap, pureArgs, pureLog>>
srvVars == <<storage, plaid, requests>>

(***************************************************************************)
(* Bounds of the explored inputs.                                          *)
(***************************************************************************)
MaxRows == 2
MaxBatch == 2
MaxTx == 3
MaxAccounts == 2

(***************************************************************************)
(* JavaScript values that are not strings or numbers.                      *)
(***************************************************************************)
\* undefined, where a string is expected: a sequence no string equals
Undefined == <<"undefined">>
\* a number is [nan, val]; NaN is the one with nan set
NaN == [nan |-> TRUE, val |-> 0]
Num(n) == [nan |-> FALSE, val |-> n]

\* a string is falsy exactly when it is undefined or empty
Truthy(s) == s # Undefined /\ s # <<>>

(***************************************************************************)
(* String primitives of the JavaScript runtime.                            *)
(***************************************************************************)
UpperChars == <<"A","B","C","D","E","F","G","H","I","J","K","L","M","N","O","P","Q","R","S","T","U","V","W","X","Y","Z">>
LowerChars == <<"a","b","c","d","e","f","g","h","i","j","k","l","m","n","o","p","q","r","s","t","u","v","w","x","y","z">>
Digits == <<"0","1","2","3","4","5","6","7","8","9">>
WhiteSpace == {" ", "\t", "\r", "\n"}

IndexIn(c, s) == CHOOSE k \in 1..Len(s) : s[k] = c
IsIn(c, s) == \E k \in 1..Len(s) : s[k] = c

\* String.prototype.toLowerCase
ToLowerChar(c) == IF IsIn(c, UpperChars) THEN LowerChars[IndexIn(c, UpperChars)] ELSE c
ToLowerCase(s) == [k \in 1..Len(s) |-> ToLowerChar(s[k])]

\* String.prototype.trim
AllWhite(s) == \A k \in 1..Len(s) : s[k] \in WhiteSpace
FirstBlack(s) == CHOOSE k \in 1..Len(s) : s[k] \notin WhiteSpace /\ \A j \in 1..(k - 1) : s[j] \in WhiteSpace
LastBlack(s) == CHOOSE k \in 1..Len(s) : s[k] \notin WhiteSpace /\ \A j \in (k + 1)..Len(s) : s[j] \in WhiteSpace
Trim(s) == IF AllWhite(s) THEN <<>> ELSE SubSeq(s, FirstBlack(s), LastBlack(s))

\* String.prototype.split with a character class
HasSep(s, seps) == \E k \in 1..Len(s) : s[k] \in seps
FirstSep(s, seps) == CHOOSE k \in 1..Len(s) : s[k] \in seps /\ \A j \in 1..(k - 1) : s[j] \notin seps
RECURSIVE SplitAny(_, _)
SplitAt(s, seps, p) == <<SubSeq(s, 1, p - 1)>> \o SplitAny(SubSeq(s, p + 1, Len(s)), seps)
SplitAny(s, seps) == IF HasSep(s, seps) THEN SplitAt(s, seps, FirstSep(s, seps)) ELSE <<s>>

\* String.prototype.split with a one-character separator
Split(s, sep) == SplitAny(s, {sep})

\* csvData.split(/\r?\n/): a carriage return right before a line feed belongs
\* to the separator
ChopCr(piece) ==
  IF Len(piece) > 0 /\ piece[Len(piece)] = "\r" THEN SubSeq(piece, 1, Len(piece) - 1) ELSE piece
ChopCrs(raw) == [k \in 1..Len(raw) |-> IF k < Len(raw) THEN ChopCr(raw[k]) ELSE raw[k]]
SplitLines(s) == ChopCrs(Split(s, "\n"))

\* Array.prototype.join
RECURSIVE Join(_, _)
Join(parts, sep) ==
  IF Len(parts) = 0 THEN <<>>
  ELSE IF Len(parts) = 1 THEN parts[1]
  ELSE parts[1] \o sep \o Join(Tail(parts), sep)

\* String.prototype.includes
Includes(text, keyword) ==
  \E k \in 0..(Len(text) - Len(keyword)) : SubSeq(text, k + 1, k + Len(keyword)) = keyword

\* Array.prototype.includes
ArrayIncludes(arr, x) == \E k \in 1..Len(arr) : arr[k] = x

\* template-literal rendering of a non-negative integer
RECURSIVE IntToStr(_)
IntToStr(n) == IF n < 10 THEN <<Digits[n + 1]>> ELSE IntToStr(n \div 10) \o <<Digits[(n % 10) + 1]>>

\* template-literal rendering of a string value or undefined
ToStr(v) == IF v = Undefined THEN <<"u","n","d","e","f","i","n","e","d">> ELSE v

DigitVal(c) == IndexIn(c, Digits) - 1

RECURSIVE DigitsVal(_)
DigitsVal(ds) == IF Len(ds) = 0 THEN 0 ELSE DigitsVal(SubSeq(ds, 1, Len(ds) - 1)) * 10 + DigitVal(ds[Len(ds)])

\* length of the longest prefix of s made of decimal digits
DigitRun(s) ==
  CHOOSE n \in 0..Len(s) : (\A k \in 1..n : IsIn(s[k], Digits))
                           /\ (n < Len(s) => ~IsIn(s[n + 1], Digits))

\* parseFloat: optional white space, optional sign, digits, optional fraction;
\* whatever follows is ignored; NaN when no digit was read.  The value is in
\* hundredths, fraction digits after the second are dropped.
SkipWhite(v) == IF AllWhite(v) THEN <<>> ELSE SubSeq(v, FirstBlack(v), Len(v))
Hundredths(frac) ==
  IF Len(frac) = 0 THEN <<"0","0">>
  ELSE IF Len(frac) = 1 THEN frac \o <<"0">>
  ELSE SubSeq(frac, 1, 2)
ParseParts(whole, frac) ==
  IF Len(whole) = 0 /\ Len(frac) = 0 THEN NaN
  ELSE Num(DigitsVal(whole) * 100 + DigitsVal(Hundredths(frac)))
FractionOf(rest) ==
  IF Len(rest) > 0 /\ rest[1] = "." THEN SubSeq(Tail(rest), 1, DigitRun(Tail(rest))) ELSE <<>>
ParseUnsigned(s) ==
  ParseParts(SubSeq(s, 1, DigitRun(s)), FractionOf(SubSeq(s, DigitRun(s) + 1, Len(s))))
Negate(n) == IF n.nan THEN NaN ELSE Num(0 - n.val)
ParseSigned(s) ==
  IF Len(s) > 0 /\ s[1] = "-" THEN Negate(ParseUnsigned(Tail(s)))
  ELSE IF Len(s) > 0 /\ s[1] = "+" THEN ParseUnsigned(Tail(s))
  ELSE ParseUnsigned(s)
ParseFloat(v) == IF v = Undefined THEN NaN ELSE ParseSigned(SkipWhite(v))

(***************************************************************************)
(* new Date(string).  The ISO form YYYY-MM-DD is the one the language      *)
(* defines; the slash form M/D/YYYY is the one every engine's fallback     *)
(* parser accepts.  Every other string of the explored inputs gives an     *)
(* invalid Date.                                                           *)
(***************************************************************************)
InvalidDate == [valid |-> FALSE]

AllDigits(s) == Len(s) > 0 /\ \A k \in 1..Len(s) : IsIn(s[k], Digits)

MkDate(ys, ms, ds) ==
  IF AllDigits(ys) /\ AllDigits(ms) /\ AllDigits(ds)
     /\ DigitsVal(ms) \in 1..12 /\ DigitsVal(ds) \in 1..31
  THEN [valid |-> TRUE, y |-> DigitsVal(ys), m |-> DigitsVal(ms), d |-> DigitsVal(ds)]
  ELSE InvalidDate

IsoShaped(parts) ==
  Len(parts) = 3 /\ Len(parts[1]) = 4 /\ Len(parts[2]) = 2 /\ Len(parts[3]) = 2
SlashShaped(parts) ==
  Len(parts) = 3 /\ Len(parts[1]) \in 1..2 /\ Len(parts[2]) \in 1..2 /\ Len(parts[3]) = 4
IsoDate(parts) == MkDate(parts[1], parts[2], parts[3])
SlashDate(parts) == MkDate(parts[3], parts[1], parts[2])

NewDate(s) ==
  IF IsoShaped(Split(s, "-")) THEN IsoDate(Split(s, "-"))
  ELSE IF SlashShaped(Split(s, "/")) THEN SlashDate(Split(s, "/"))
  ELSE InvalidDate

(***************************************************************************)
(* Category classifier.                                                    *)
(***************************************************************************)
cHousing == <<"H","o","u","s","i","n","g">>
cFood == <<"F","o","o","d">>
cTransportation == <<"T","r","a","n","s","p","o","r","t","a","t","i","o","n">>
cShopping == <<"S","h","o","p","p","i","n","g">>
cUtilities == <<"U","t","i","l","i","t","i","e","s">>
cHealthcare == <<"H","e","a","l","t","h","c","a","r","e">>
cEntertainment == <<"E","n","t","e","r","t","a","i","n","m","e","n","t">>
cEducation == <<"E","d","u","c","a","t","i","o","n">>
cTravel == <<"T","r","a","v","e","l">>
cIncome == <<"I","n","c","o","m","e">>
cOther == <<"O","t","h","e","r">>

\* the ordered rule table
categoryRules == <<
  [keywords |-> <<
      <<"r","e","n","t">>,
      <<"m","o","r","t","g","a","g","e">>,
      <<"a","p","a","r","t","m","e","n","t">>,
      <<"h","o","m","e">>,
      <<"p","r","o","p","e","r","t","y">>,
      <<"l","o","a","n">>,
      <<"h","o","u","s","e">>>>,
   category |-> cHousing],
  [keywords |-> <<
      <<"m","a","r","k","e","t">>,
      <<"g","r","o","c","e","r","y">>,
      <<"s","u","p","e","r","m","a","r","k","e","t">>,
      <<"f","o","o","d">>,
      <<"r","e","s","t","a","u","r","a","n","t">>,
      <<"d","i","n","i","n","g">>,
      <<"c","a","f","e">>,
      <<"c","o","f","f","e","e">>,
      <<"b","r","e","a","k","f","a","s","t">>,
      <<"l","u","n","c","h">>,
      <<"d","i","n","n","e","r">>,
      <<"m","e","a","l">>,
      <<"d","o","o","r","d","a","s","h">>,
      <<"u","b","e","r"," ","e","a","t","s">>,
      <<"g","r","u","b","h","u","b">>,
      <<"p","i","z","z","a">>,
      <<"t","a","k","e","o","u","t">>>>,
   category |-> cFood],
  [keywords |-> <<
      <<"g","a","s">>,
      <<"f","u","e","l">>,
      <<"u","b","e","r">>,
      <<"l","y","f","t">>,
      <<"t","a","x","i">>,
      <<"c","a","r">>,
      <<"a","u","t","o">>,
      <<"v","e","h","i","c","l","e">>,
      <<"m","a","i","n","t","e","n","a","n","c","e">>,
      <<"r","e","p","a","i","r">>,
      <<"o","i","l">>,
      <<"t","i","r","e">>,
      <<"p","a","r","k","i","n","g">>,
      <<"t","r","a","n","s","p","o","r","t">>,
      <<"t","r","a","n","s","i","t">>,
      <<"b","u","s">>,
      <<"t","r","a","i","n">>,
      <<"s","u","b","w","a","y">>,
      <<"m","e","t","r","o">>>>,
   category |-> cTransportation],
  [keywords |-> <<
      <<"a","m","a","z","o","n">>,
      <<"w","a","l","m","a","r","t">>,
      <<"t","a","r","g","e","t">>,
      <<"c","o","s","t","c","o">>,
      <<"s","h","o","p">>,
      <<"s","t","o","r","e">>,
      <<"r","e","t","a","i","l">>,
      <<"m","a","l","l">>,
      <<"o","u","t","l","e","t">>,
      <<"p","u","r","c","h","a","s","e">>,
      <<"b","u","y">>,
      <<"c","l","o","t","h","e","s">>,
      <<"c","l","o","t","h","i","n","g">>,
      <<"a","p","p","a","r","e","l">>,
      <<"s","h","o","e","s">>,
      <<"a","c","c","e","s","s","o","r","y">>,
      <<"e","l","e","c","t","r","o","n","i","c","s">>,
      <<"a","p","p","l","i","a","n","c","e">>,
      <<"h","a","r","d","w","a","r","e">>>>,
   category |-> cShopping],
  [keywords |-> <<
      <<"e","l","e","c","t","r","i","c">>,
      <<"e","l","e","c","t","r","i","c","i","t","y">>,
      <<"g","a","s">>,
      <<"w","a","t","e","r">>,
      <<"s","e","w","e","r">>,
      <<"t","r","a","s","h">>,
      <<"i","n","t","e","r","n","e","t">>,
      <<"c","a","b","l","e">>,
      <<"p","h","o","n","e">>,
      <<"m","o","b","i","l","e">>,
      <<"c","e","l","l","u","l","a","r">>,
      <<"u","t","i","l","i","t","y">>,
      <<"b","i","l","l">>,
      <<"s","e","r","v","i","c","e">>>>,
   category |-> cUtilities],
  [keywords |-> <<
      <<"d","o","c","t","o","r">>,
      <<"h","o","s","p","i","t","a","l">>,
      <<"m","e","d","i","c","a","l">>,
      <<"h","e","a","l","t","h">>,
      <<"h","e","a","l","t","h","c","a","r","e">>,
      <<"d","e","n","t","a","l">>,
      <<"v","i","s","i","o","n">>,
      <<"p","h","a","r","m","a","c","y">>,
      <<"p","r","e","s","c","r","i","p","t","i","o","n">>,
      <<"m","e","d","i","c","i","n","e">>,
      <<"c","l","i","n","i","c">>,
      <<"e","m","e","r","g","e","n","c","y">>,
      <<"i","n","s","u","r","a","n","c","e">>,
      <<"f","i","t","n","e","s","s">>,
      <<"g","y","m">>,
      <<"w","e","l","l","n","e","s","s">>>>,
   category |-> cHealthcare],
  [keywords |-> <<
      <<"m","o","v","i","e">>,
      <<"t","h","e","a","t","r","e">>,
      <<"t","h","e","a","t","e","r">>,
      <<"c","i","n","e","m","a">>,
      <<"c","o","n","c","e","r","t">>,
      <<"s","h","o","w">>,
      <<"e","n","t","e","r","t","a","i","n","m","e","n","t">>,
      <<"m","u","s","i","c">>,
      <<"s","p","o","t","i","f","y">>,
      <<"n","e","t","f","l","i","x">>,
      <<"h","u","l","u">>,
      <<"d","i","s","n","e","y">>,
      <<"s","t","r","e","a","m","i","n","g">>,
      <<"s","u","b","s","c","r","i","p","t","i","o","n">>,
      <<"g","a","m","e">>,
      <<"h","o","b","b","y">>,
      <<"f","u","n">>,
      <<"l","e","i","s","u","r","e">>>>,
   category |-> cEntertainment],
  [keywords |-> <<
      <<"s","c","h","o","o","l">>,
      <<"c","o","l","l","e","g","e">>,
      <<"u","n","i","v","e","r","s","i","t","y">>,
      <<"t","u","i","t","i","o","n">>,
      <<"e","d","u","c","a","t","i","o","n">>,
      <<"c","o","u","r","s","e">>,
      <<"c","l","a","s","s">>,
      <<"d","e","g","r","e","e">>,
      <<"s","t","u","d","e","n","t">>,
      <<"b","o","o","k">>,
      <<"t","e","x","t","b","o","o","k">>,
      <<"s","t","u","d","y">>,
      <<"l","e","a","r","n","i","n","g">>,
      <<"t","r","a","i","n","i","n","g">>,
      <<"w","o","r","k","s","h","o","p">>>>,
   category |-> cEducation],
  [keywords |-> <<
      <<"h","o","t","e","l">>,
      <<"m","o","t","e","l">>,
      <<"l","o","d","g","i","n","g">>,
      <<"a","i","r","b","n","b">>,
      <<"v","a","c","a","t","i","o","n">>,
      <<"h","o","l","i","d","a","y">>,
      <<"t","r","i","p">>,
      <<"t","r","a","v","e","l">>,
      <<"f","l","i","g","h","t">>,
      <<"a","i","r","l","i","n","e">>,
      <<"a","i","r","p","l","a","n","e">>,
      <<"b","o","o","k","i","n","g">>,
      <<"r","e","s","e","r","v","a","t","i","o","n">>,
      <<"t","i","c","k","e","t">>,
      <<"t","o","u","r">>,
      <<"c","r","u","i","s","e">>,
      <<"r","e","s","o","r","t">>>>,
   category |-> cTravel],
  [keywords |-> <<
      <<"s","a","l","a","r","y">>,
      <<"p","a","y","r","o","l","l">>,
      <<"d","e","p","o","s","i","t">>,
      <<"i","n","c","o","m","e">>,
      <<"r","e","v","e","n","u","e">>,
      <<"w","a","g","e">>,
      <<"p","a","y","m","e","n","t">>,
      <<"c","o","m","p","e","n","s","a","t","i","o","n">>,
      <<"b","o","n","u","s">>,
      <<"c","o","m","m","i","s","s","i","o","n">>,
      <<"d","i","v","i","d","e","n","d">>,
      <<"i","n","t","e","r","e","s","t">>,
      <<"r","e","f","u","n","d">>,
      <<"r","e","t","u","r","n">>,
      <<"r","e","i","m","b","u","r","s","e","m","e","n","t">>>>,
   category |-> cIncome]
>>

\* a rule matches when one of its keywords occurs in the search text
RuleMatches(rule, searchText) ==
  \E k \in 1..Len(rule.keywords) : Includes(searchText, ToLowerCase(rule.keywords[k]))

\* the positions, in the table, of the rules that match
MatchingRules(searchText) ==
  {k \in 1..Len(categoryRules) : RuleMatches(categoryRules[k], searchText)}

Least(S) == CHOOSE k \in S : \A j \in S : k <= j
Greatest(S) == CHOOSE k \in S : \A j \in S : k >= j

\* variant: the last matching rule wins
CategoryOfLast(hits) == IF hits = {} THEN cOther ELSE categoryRules[Greatest(hits)].category

\* the loop over the table returns at the first matching rule; "Other" when
\* no rule matches
CategoryOfFirst(hits) == IF hits = {} THEN cOther ELSE categoryRules[Least(hits)].category

FirstRuleCategory(searchText) == CategoryOfFirst(MatchingRules(searchText))

SearchText(transaction) ==
  ToLowerCase(transaction.description \o <<" ">> \o transaction.merchant)

\* variant: the keyword rules are consulted before the sign of the amount
categorizeTransactionRulesFirst(transaction) ==
  IF MatchingRules(SearchText(transaction)) # {}
  THEN FirstRuleCategory(SearchText(transaction))
  ELSE IF transaction.amount > 0 THEN cIncome
  ELSE cOther

categorizeTransaction(transaction) ==
  IF transaction.amount > 0 THEN cIncome
  ELSE FirstRuleCategory(SearchText(transaction))

\* variant: every element is re-categorized
categorizeBatchAll(transactions) ==
  [k \in 1..Len(transactions) |->
     [transactions[k] EXCEPT !.category = categorizeTransaction(transactions[k])]]

\* the batch helper: an element is re-categorized only when its category is
\* missing (undefined or empty) or "Other"
categorizeBatch(transactions) ==
  [k \in 1..Len(transactions) |->
     IF ~Truthy(transactions[k].category) \/ transactions[k].category = cOther
     THEN [transactions[k] EXCEPT !.category = categorizeTransaction(transactions[k])]
     ELSE transactions[k]]

suggestCategory(description) == FirstRuleCategory(ToLowerCase(description))

(***************************************************************************)
(* CSV transaction parser.                                                 *)
(***************************************************************************)
fStandard == <<"s","t","a","n","d","a","r","d">>
fBank == <<"b","a","n","k">>
fNull == <<"null">>

hDate == <<"d","a","t","e">>
hDescription == <<"d","e","s","c","r","i","p","t","i","o","n">>
hAmount == <<"a","m","o","u","n","t">>
hDebit == <<"d","e","b","i","t">>
hCredit == <<"c","r","e","d","i","t">>
hCategory == <<"c","a","t","e","g","o","r","y">>
hMerchant == <<"m","e","r","c","h","a","n","t">>

\* variant: the standard layout is accepted without a description column
detectCsvFormatLoose(hs) ==
  IF ArrayIncludes(hs, hDate) /\ ArrayIncludes(hs, hAmount)
  THEN fStandard
  ELSE IF ArrayIncludes(hs, hDate) /\ ArrayIncludes(hs, hDescription)
          /\ (ArrayIncludes(hs, hDebit) \/ ArrayIncludes(hs, hCredit))
  THEN fBank
  ELSE fNull

detectCsvFormat(hs) ==
  IF ArrayIncludes(hs, hDate) /\ ArrayIncludes(hs, hDescription) /\ ArrayIncludes(hs, hAmount)
  THEN fStandard
  ELSE IF ArrayIncludes(hs, hDate) /\ ArrayIncludes(hs, hDescription)
          /\ (ArrayIncludes(hs, hDebit) \/ ArrayIncludes(hs, hCredit))
  THEN fBank
  ELSE fNull

\* the scanner of parseCsvValues: st = [values, currentValue, insideQuotes]
RECURSIVE ScanCsv(_, _, _)
ScanCsv(line, k, st) ==
  IF k > Len(line) THEN st
  ELSE IF line[k] = "\""
  THEN ScanCsv(line, k + 1, [st EXCEPT !.insideQuotes = ~@])
  ELSE IF line[k] = "," /\ ~st.insideQuotes
  THEN ScanCsv(line, k + 1, [values |-> Append(st.values, Trim(st.currentValue)),
                             currentValue |-> <<>>,
                             insideQuotes |-> st.insideQuotes])
  ELSE ScanCsv(line, k + 1, [st EXCEPT !.currentValue = Append(@, line[k])])

\* the last value is added after the scan
LastValueAdded(st) == Append(st.values, Trim(st.currentValue))

parseCsvValues(line) ==
  LastValueAdded(ScanCsv(line, 1, [values |-> <<>>, currentValue |-> <<>>, insideQuotes |-> FALSE]))

\* variant: the first word, as the server import does
MerchantOfFirstWord(description, words) ==
  IF Len(words) = 0 THEN <<"U","n","k","n","o","w","n">> ELSE words[1]

\* lines 172-182
MerchantOf(description, words) ==
  IF Len(words) = 0 THEN <<"U","n","k","n","o","w","n">>
  ELSE IF Len(words) <= 3 THEN description
  ELSE Join(SubSeq(words, 1, 2), <<" ">>)

extractMerchant(description) == MerchantOf(description, Split(description, " "))

\* row[name] after headers.forEach((header, index) => row[header] = values[index]):
\* the last column with that header wins, a header that is absent reads undefined
ColumnsOf(hs, name) == {k \in 1..Len(hs) : hs[k] = name}
ValueAt(values, cols) == IF cols = {} THEN Undefined ELSE values[Greatest(cols)]
RowField(hs, values, name) == ValueAt(values, ColumnsOf(hs, name))

RowOf(hs, values) ==
  [date |-> RowField(hs, values, hDate),
   description |-> RowField(hs, values, hDescription),
   amount |-> RowField(hs, values, hAmount),
   debit |-> RowField(hs, values, hDebit),
   credit |-> RowField(hs, values, hCredit),
   category |-> RowField(hs, values, hCategory),
   merchant |-> RowField(hs, values, hMerchant)]

\* the date of a row: direct parse, then [part3]-[part1]-[part2], then
\* [part3]-[part2]-[part1]
FirstValid(first, second) == IF first.valid THEN first ELSE second
Reordered(parts, direct) ==
  IF Len(parts) = 3
  THEN FirstValid(NewDate(parts[3] \o <<"-">> \o parts[1] \o <<"-">> \o parts[2]),
                  NewDate(parts[3] \o <<"-">> \o parts[2] \o <<"-">> \o parts[1]))
  ELSE direct
DirectOrReordered(dateStr, direct) ==
  IF direct.valid THEN direct ELSE Reordered(SplitAny(dateStr, {"/", "-", "."}), direct)
RowDate(dateStr) == DirectOrReordered(dateStr, NewDate(dateStr))

\* the outcome of a call: an error thrown or a value returned
Throw(message) == [threw |-> TRUE, message |-> message]
Return(value) == [threw |-> FALSE, value |-> value]

StandardAmount(cell, amount) ==
  IF amount.nan THEN Throw(<<"I","n","v","a","l","i","d"," ","a","m","o","u","n","t",":"," ">> \o ToStr(cell)) ELSE Return(amount.val)

\* row['debit'] ? parseFloat(row['debit']) : 0
BankCell(cell) == IF Truthy(cell) THEN ParseFloat(cell) ELSE Num(0)

\* variant: a positive credit is looked at before the debit
BankAmountCreditFirst(debit, credit) ==
  IF ~credit.nan /\ credit.val > 0 THEN Return(credit.val)
  ELSE IF ~debit.nan /\ debit.val > 0 THEN Return(0 - debit.val)
  ELSE Throw(<<"M","i","s","s","i","n","g"," ","o","r"," ","i","n","v","a","l","i","d"," ","d","e","b","i","t","/","c","r","e","d","i","t"," ","v","a","l","u","e","s">>)

BankAmount(debit, credit) ==
  IF ~debit.nan /\ debit.val > 0 THEN Return(0 - debit.val)
  ELSE IF ~credit.nan /\ credit.val > 0 THEN Return(credit.val)
  ELSE Throw(<<"M","i","s","s","i","n","g"," ","o","r"," ","i","n","v","a","l","i","d"," ","d","e","b","i","t","/","c","r","e","d","i","t"," ","v","a","l","u","e","s">>)

\* the amount of a row: a number, or the message of the error thrown
RowAmount(row, fmt) ==
  IF fmt = fStandard THEN StandardAmount(row.amount, ParseFloat(row.amount))
  ELSE IF fmt = fBank THEN BankAmount(BankCell(row.debit), BankCell(row.credit))
  ELSE Throw(<<"U","n","s","u","p","p","o","r","t","e","d"," ","f","o","r","m","a","t">>)

NewTransaction(row, date, description, amount, acct) ==
  [accountId |-> acct,
   date |-> date,
   description |-> description,
   amount |-> amount,
   category |-> IF Truthy(row.category) THEN row.category ELSE cOther,
   merchant |-> IF Truthy(row.merchant) THEN row.merchant ELSE extractMerchant(description)]

\* lines 161-166: auto-categorize when the row gave no category
AutoCategorized(row, transaction) ==
  IF ~Truthy(row.category) \/ Trim(row.category) = <<>>
  THEN Return([transaction EXCEPT !.category = categorizeTransaction(transaction)])
  ELSE Return(transaction)

\* lines 130-159
WithAmount(row, date, description, amount, acct) ==
  IF amount.threw THEN amount
  ELSE AutoCategorized(row, NewTransaction(row, date, description, amount.value, acct))

\* lines 120-128
WithDate(row, date, fmt, acct) ==
  IF ~date.valid THEN Throw(<<"I","n","v","a","l","i","d"," ","d","a","t","e",":"," ">> \o row.date)
  ELSE WithAmount(row, date,
                  IF Truthy(row.description) THEN row.description ELSE <<"U","n","k","n","o","w","n">>,
                  RowAmount(row, fmt), acct)

\* lines 100-118
ParseRow(row, fmt, acct) ==
  IF ~Truthy(row.date) THEN Throw(<<"M","i","s","s","i","n","g"," ","d","a","t","e">>)
  ELSE WithDate(row, RowDate(row.date), fmt, acct)

\* variant: a row must have exactly as many values as the header has columns
ParseValuesStrictCount(values, hs, fmt, acct) ==
  IF Len(values) # Len(hs)
  THEN Throw(<<"L","i","n","e"," ","h","a","s"," ">> \o IntToStr(Len(values)) \o <<" ","v","a","l","u","e","s"," ","b","u","t"," ","e","x","p","e","c","t","e","d"," ">> \o IntToStr(Len(hs)))
  ELSE ParseRow(RowOf(hs, values), fmt, acct)

\* lines 89-98
ParseValues(values, hs, fmt, acct) ==
  IF Len(values) < Len(hs)
  THEN Throw(<<"L","i","n","e"," ","h","a","s"," ">> \o IntToStr(Len(values)) \o <<" ","v","a","l","u","e","s"," ","b","u","t"," ","e","x","p","e","c","t","e","d"," ">> \o IntToStr(Len(hs)))
  ELSE ParseRow(RowOf(hs, values), fmt, acct)

parseCsvLine(line, hs, fmt, acct) == ParseValues(parseCsvValues(line), hs, fmt, acct)

UnsupportedFormatError ==
  <<"U","n","s","u","p","p","o","r","t","e","d"," ","C","S","V"," ","f","o","r","m","a","t","."," ","E","x","p","e","c","t","e","d"," ","c","o","l","u","m","n","s",":"," ","d","a","t","e",","," ","d","e","s","c","r","i","p","t","i","o","n",","," ","a","m","o","u","n","t"," ","(","o","r"," ","d","e","b","i","t","/","c","r","e","d","i","t",")">>

\* variant: the loop index is reported as the line number
LineErrorZeroBased(idx, message) == <<"E","r","r","o","r"," ","o","n"," ","l","i","n","e"," ">> \o IntToStr(idx) \o <<":"," ">> \o message

\* `Error on line ${i + 1}: ${message}`
LineError(idx, message) == <<"E","r","r","o","r"," ","o","n"," ","l","i","n","e"," ">> \o IntToStr(idx + 1) \o <<":"," ">> \o message

(***************************************************************************)
(* Inputs of the parser: a header line, up to MaxRows data lines, and the  *)
(* line terminator of the file.                                            *)
(***************************************************************************)
CsvHeaders == {
  <<"d","a","t","e",",","d","e","s","c","r","i","p","t","i","o","n",",","a","m","o","u","n","t">>,
  <<"D","a","t","e",","," ","D","e","s","c","r","i","p","t","i","o","n"," ",",","A","m","o","u","n","t",",","C","a","t","e","g","o","r","y",",","M","e","r","c","h","a","n","t">>,
  <<"d","a","t","e",",","d","e","s","c","r","i","p","t","i","o","n",",","d","e","b","i","t",",","c","r","e","d","i","t">>,
  <<"d","a","t","e",",","d","e","s","c","r","i","p","t","i","o","n",",","a","m","o","u","n","t",",","d","e","b","i","t",",","c","r","e","d","i","t">>,
  <<"d","a","t","e",",","d","e","s","c","r","i","p","t","i","o","n",",","c","r","e","d","i","t">>,
  <<"d","a","t","e",",","m","e","m","o",",","a","m","o","u","n","t">>,
  <<"\"","d","a","t","e","\"",",","d","e","s","c","r","i","p","t","i","o","n",",","d","e","b","i","t">>
}

CsvRows == {
  <<"2","0","2","4","-","0","1","-","1","5",",","N","e","t","f","l","i","x"," ","M","o","n","t","h","l","y",",","-","1","5",".","9","9">>,
  <<"2","0","2","4","-","0","2","-","0","1",",","P","a","y","c","h","e","c","k"," ","f","r","o","m"," ","A","c","m","e",",",",","2","5","0","0">>,
  <<"1","5","/","0","1","/","2","0","2","4",",","\"","R","e","n","t",","," ","M","a","y","\"",",","-","1","2","0","0",".","0","0",",","H","o","u","s","i","n","g",",","L","a","n","d","l","o","r","d">>,
  <<"0","1","/","2","0","/","2","0","2","4",",","S","h","e","l","l"," ","g","a","s"," ","s","t","a","t","i","o","n"," ","f","i","l","l",",","4","0",",","1","0">>,
  <<"2","0","2","4","-","0","3","-","0","1",",","D","i","n","n","e","r"," ","o","u","t",",","-","2","0",",","D","i","n","i","n","g",",">>,
  <<"n","o","t","a","d","a","t","e",",","C","o","f","f","e","e",",","-","3",".","5","0">>,
  <<"2","0","2","4","-","0","1","-","1","6",",","C","o","f","f","e","e",",","a","b","c",",",",">>,
  <<"2","0","2","4","-","0","1","-","1","7",",","L","u","n","c","h">>,
  <<",","R","e","f","u","n","d",",","-","5",",","0",",","7">>,
  <<" "," ">>
}

Eols == {<<"\n">>, <<"\r","\n">>}

RECURSIVE SeqsUpTo(_, _)
SeqsUpTo(S, n) ==
  IF n = 0 THEN {<<>>}
  ELSE LET shorter == SeqsUpTo(S, n - 1)
       IN  shorter \cup {Append(s, x) : s \in {t \in shorter : Len(t) = n - 1}, x \in S}

CsvInputs == {Join(<<h>> \o rows, eol) : h \in CsvHeaders, rows \in SeqsUpTo(CsvRows, MaxRows), eol \in Eols}

AccountIds == {1}

IdleCat == /\ batchIn = <<>> /\ batchOut = <<>> /\ catResults = <<>> /\ catPc = "idle"
IdleIns == /\ insTransactions = <<>> /\ insAccounts = <<>> /\ insights = <<>> /\ insPc = "idle"
IdleRec == /\ recTransactions = <<>> /\ recurring = <<>> /\ recPc = "idle"
IdleRt == csvTransactions = <<>>
IdlePure == /\ heap = <<>> /\ pureArgs = <<>> /\ pureLog = <<>>
IdleSrv == /\ storage = <<>> /\ plaid = <<>> /\ requests = <<>>
IdleCsv == /\ csvData = <<>> /\ accountId = 0 /\ lines = <<>> /\ headers = <<>>
           /\ format = fNull /\ i = 0
           /\ result = [transactions |-> <<>>, errors |-> <<>>]
           /\ pc = "idle"

(***************************************************************************)
(* parseTransactionCsv, one action per step of its body.                   *)
(***************************************************************************)
Init ==
  /\ csvData \in CsvInputs
  /\ accountId \in AccountIds
  /\ lines = <<>>
  /\ headers = <<>>
  /\ format = fNull
  /\ i = 0
  /\ result = [transactions |-> <<>>, errors |-> <<>>]
  /\ pc = "start"
  /\ IdleCat
  /\ IdleIns
  /\ IdleRec
  /\ IdleRt
  /\ IdlePure
  /\ IdleSrv

\* lines[0].toLowerCase().split(',').map(h => h.trim())
TrimAll(cells) == [k \in 1..Len(cells) |-> Trim(cells[k])]
HeaderOf(line) == TrimAll(Split(ToLowerCase(line), ","))

\* lines 24-40: split, read the header, detect the format; an unrecognized
\* header returns at once with the single format error
ParseHeader ==
  /\ pc = "start"
  /\ lines' = SplitLines(csvData)
  /\ headers' = HeaderOf(lines'[1])
  /\ format' = detectCsvFormat(headers')
  /\ IF format' = fNull
     THEN /\ result' = [result EXCEPT !.errors = Append(@, UnsupportedFormatError)]
          /\ pc' = "done"
          /\ i' = i
     ELSE /\ result' = result
          /\ pc' = "loop"
          /\ i' = 1
  /\ UNCHANGED <<csvData, accountId>>
  /\ UNCHANGED <<catVars, insVars, recVars, rtVars, pureVars, srvVars>>

\* lines 47-54: the transaction is pushed, or the error thrown is caught and
\* recorded with its line number
Pushed(res, idx, outcome) ==
  IF outcome.threw
  THEN [res EXCEPT !.errors = Append(@, LineError(idx, outcome.message))]
  ELSE [res EXCEPT !.transactions = Append(@, outcome.value)]

\* lines 43-55: one iteration of the loop over the data lines
ParseLine ==
  /\ pc = "loop"
  /\ i < Len(lines)
  /\ result' = IF Trim(lines[i + 1]) = <<>> THEN result
               ELSE Pushed(result, i, parseCsvLine(Trim(lines[i + 1]), headers, format, accountId))
  /\ i' = i + 1
  /\ UNCHANGED <<csvData, accountId, lines, headers, format, pc>>
  /\ UNCHANGED <<catVars, insVars, recVars, rtVars, pureVars, srvVars>>

\* line 57: the loop is over, the result is returned
ParseReturn ==
  /\ pc = "loop"
  /\ i >= Len(lines)
  /\ pc' = "done"
  /\ UNCHANGED <<csvData, accountId, lines, headers, format, i, result>>
  /\ UNCHANGED <<catVars, insVars, recVars, rtVars, pureVars, srvVars>>

Next == ParseHeader \/ ParseLine \/ ParseReturn

Spec == Init /\ [][Next]_vars

(***************************************************************************)
(* The classifier applied to a list of transactions: categorizeTransaction *)
(* on every element, then categorizeBatch on the list, then categorizeBatch*)
(* on its own output.                                                      *)
(***************************************************************************)
CatTx(description, merchant, amount, category) ==
  [description |-> description, merchant |-> merchant, amount |-> amount, category |-> category]

CatTxs == {
  CatTx(<<"S","h","e","l","l"," ","G","a","s">>, <<"S","h","e","l","l">>, -5000, <<>>),
  CatTx(<<"S","h","e","l","l"," ","G","a","s">>, <<"S","h","e","l","l">>, -5000, cFood),
  CatTx(<<"U","b","e","r"," ","E","a","t","s"," ","o","r","d","e","r">>, <<"U","B","E","R">>, 5000, cOther),
  CatTx(<<"U","b","e","r"," ","E","a","t","s"," ","o","r","d","e","r">>, <<"U","B","E","R">>, -5000, cOther),
  CatTx(<<"P","a","y","r","o","l","l"," ","d","e","p","o","s","i","t">>, <<"A","c","m","e">>, -5000, <<>>),
  CatTx(<<"P","a","y","r","o","l","l"," ","d","e","p","o","s","i","t">>, <<"A","c","m","e">>, 5000, cFood),
  CatTx(<<"P","a","y","r","o","l","l"," ","d","e","p","o","s","i","t">>, <<"A","c","m","e">>, 0, <<"D","i","n","i","n","g">>),
  CatTx(<<"N","e","t","f","l","i","x">>, <<>>, -5000, cOther),
  CatTx(<<"W","a","t","e","r"," ","b","i","l","l">>, <<"C","i","t","y">>, 0, Undefined),
  CatTx(<<"X","y","z">>, <<"Q","q">>, -5000, cOther),
  CatTx(<<"X","y","z">>, <<"Q","q">>, 5000, <<>>)
}

InitCat ==
  /\ batchIn \in SeqsUpTo(CatTxs, MaxBatch)
  /\ batchOut = <<>>
  /\ catResults = <<>>
  /\ catPc = "each"
  /\ IdleCsv
  /\ IdleIns
  /\ IdleRec
  /\ IdleRt
  /\ IdlePure
  /\ IdleSrv

\* categorizeTransaction called on every element of the list
CategorizeEach ==
  /\ catPc = "each"
  /\ catResults' = [k \in 1..Len(batchIn) |-> categorizeTransaction(batchIn[k])]
  /\ catPc' = "batch"
  /\ UNCHANGED <<batchIn, batchOut>>
  /\ UNCHANGED <<csvVars, insVars, recVars, rtVars, pureVars, srvVars>>

\* categorizeBatch(transactions)
CategorizeBatch ==
  /\ catPc = "batch"
  /\ batchOut' = <<categorizeBatch(batchIn)>>
  /\ catPc' = "again"
  /\ UNCHANGED <<batchIn, catResults>>
  /\ UNCHANGED <<csvVars, insVars, recVars, rtVars, pureVars, srvVars>>

\* categorizeBatch applied to the list categorizeBatch returned
CategorizeBatchAgain ==
  /\ catPc = "again"
  /\ batchOut' = Append(batchOut, categorizeBatch(batchOut[1]))
  /\ catPc' = "done"
  /\ UNCHANGED <<batchIn, catResults>>
  /\ UNCHANGED <<csvVars, insVars, recVars, rtVars, pureVars, srvVars>>

NextCat == CategorizeEach \/ CategorizeBatch \/ CategorizeBatchAgain

SpecCat == InitCat /\ [][NextCat]_vars

(***************************************************************************)
(* Insight generator.  A savingsAmount is a whole number of dollars, the   *)
(* result of Math.round; sums of amounts and balances are in hundredths.   *)
(* Products with 0.4, 0.7, 0.035 and 0.01 are computed exactly.            *)
(***************************************************************************)
\* Math.round(num / den) for den > 0: the nearest integer, halves go up
Round(num, den) == (2 * num + den) \div (2 * den)

Abs(n) == IF n < 0 THEN 0 - n ELSE n

RECURSIVE SumOf(_)
SumOf(ns) == IF Len(ns) = 0 THEN 0 ELSE ns[1] + SumOf(Tail(ns))

tSubscription == <<"s","u","b","s","c","r","i","p","t","i","o","n">>
tHighYield == <<"h","i","g","h","-","y","i","e","l","d">>
tSpendingAlert == <<"s","p","e","n","d","i","n","g","-","a","l","e","r","t">>

subscriptionKeywords == <<
  <<"n","e","t","f","l","i","x">>, <<"h","u","l","u">>, <<"d","i","s","n","e","y","+">>, <<"h","b","o">>, <<"s","p","o","t","i","f","y">>, <<"a","p","p","l","e"," ","m","u","s","i","c">>,
  <<"y","o","u","t","u","b","e">>, <<"a","m","a","z","o","n"," ","p","r","i","m","e">>, <<"p","a","r","a","m","o","u","n","t">>, <<"p","e","a","c","o","c","k">>>>

\* variant: the last keyword of the list that occurs in the text
LastKeyword(text) ==
  LET hits == {k \in 1..Len(subscriptionKeywords) : Includes(text, subscriptionKeywords[k])}
  IN  IF hits = {} THEN 0 ELSE CHOOSE k \in hits : \A j \in hits : k >= j

\* the first keyword of the list that occurs in the text, 0 when none does
FirstKeyword(text) ==
  LET hits == {k \in 1..Len(subscriptionKeywords) : Includes(text, subscriptionKeywords[k])}
  IN  IF hits = {} THEN 0 ELSE CHOOSE k \in hits : \A j \in hits : k <= j

\* the forEach of findSubscriptionOverlaps:
\* st = [streamingServices (in insertion order), subscriptionTransactions]
RECURSIVE ScanSubscriptions(_, _, _)
ScanSubscriptions(transactions, k, st) ==
  IF k > Len(transactions) THEN st
  ELSE LET text == ToLowerCase(transactions[k].description) \o <<" ">>
                   \o ToLowerCase(transactions[k].merchant)
           hit == FirstKeyword(text)
           keyword == subscriptionKeywords[hit]
       IN  IF hit = 0 THEN ScanSubscriptions(transactions, k + 1, st)
           ELSE ScanSubscriptions(transactions, k + 1,
                  [streamingServices |->
                     IF ArrayIncludes(st.streamingServices, keyword) THEN st.streamingServices
                     ELSE Append(st.streamingServices, keyword),
                   subscriptionTransactions |->
                     Append(st.subscriptionTransactions,
                            [service |-> keyword, amount |-> Abs(transactions[k].amount)])])

findSubscriptionOverlaps(transactions) ==
  LET st == ScanSubscriptions(transactions, 1,
              [streamingServices |-> <<>>, subscriptionTransactions |-> <<>>])
      services == SubSeq(st.streamingServices, 1, 3)
      totalAmount == SumOf([k \in 1..Len(st.subscriptionTransactions) |->
                              st.subscriptionTransactions[k].amount])
      monthlySavings == Round(totalAmount * 4, 1000)
  IN  IF Len(st.streamingServices) >= 3
      THEN <<[title |-> <<"S","u","b","s","c","r","i","p","t","i","o","n"," ","O","v","e","r","l","a","p"," ","D","e","t","e","c","t","e","d">>,
              description |-> <<"Y","o","u"," ","h","a","v","e"," ","m","u","l","t","i","p","l","e"," ","s","t","r","e","a","m","i","n","g"," ","s","u","b","s","c","r","i","p","t","i","o","n","s"," ","(">>
                              \o Join(services, <<","," ">>)
                              \o <<")","."," ","C","o","n","s","i","d","e","r"," ","c","o","n","s","o","l","i","d","a","t","i","n","g"," ","t","o"," ","s","a","v","e"," ","$">>
                              \o IntToStr(monthlySavings) \o <<"/","m","o","n","t","h",".">>,
              savingsAmount |-> monthlySavings,
              type |-> tSubscription,
              actionLink |-> <<"/","i","n","s","i","g","h","t","s","/","s","u","b","s","c","r","i","p","t","i","o","n","s">>]>>
      ELSE <<>>

\* variant: the balance floor is inclusive
SavingsAccountsFrom1000(accounts) ==
  SelectSeq(accounts,
            LAMBDA account : ToLowerCase(account.type) = <<"s","a","v","i","n","g","s">> /\ account.balance >= 100000)

\* lines 446-448: the savings accounts with a balance above 1000
SavingsAccounts(accounts) ==
  SelectSeq(accounts,
            LAMBDA account : ToLowerCase(account.type) = <<"s","a","v","i","n","g","s">> /\ account.balance > 100000)

TotalSavings(savingsAccounts) ==
  SumOf([k \in 1..Len(savingsAccounts) |-> savingsAccounts[k].balance])

\* Math.round(totalSavings * 0.035 - totalSavings * 0.01), in dollars
AdditionalInterest(totalSavings) == Round(totalSavings * 35 - totalSavings * 10, 100000)

\* lines 450-469
\* variant: the floor is 25
HighYieldInsightOver25(savingsAccounts, additionalInterest) ==
  IF Len(savingsAccounts) > 0 /\ additionalInterest > 25
  THEN <<[title |-> <<"H","i","g","h","-","Y","i","e","l","d"," ","S","a","v","i","n","g","s"," ","O","p","p","o","r","t","u","n","i","t","y">>,
          description |-> <<"M","o","v","i","n","g"," ","y","o","u","r"," ","s","a","v","i","n","g","s"," ","t","o"," ","a","n"," ","o","n","l","i","n","e"," ","b","a","n","k"," ","c","o","u","l","d"," ","e","a","r","n"," ","y","o","u"," ","a","n"," ","e","x","t","r","a"," ","$">>
                          \o IntToStr(additionalInterest) \o <<"/","y","e","a","r"," ","i","n"," ","i","n","t","e","r","e","s","t",".">>,
          savingsAmount |-> additionalInterest,
          type |-> tHighYield,
          actionLink |-> <<"/","i","n","s","i","g","h","t","s","/","s","a","v","i","n","g","s">>]>>
  ELSE <<>>

\* lines 450-469
HighYieldInsight(savingsAccounts, additionalInterest) ==
  IF Len(savingsAccounts) > 0 /\ additionalInterest > 20
  THEN <<[title |-> <<"H","i","g","h","-","Y","i","e","l","d"," ","S","a","v","i","n","g","s"," ","O","p","p","o","r","t","u","n","i","t","y">>,
          description |-> <<"M","o","v","i","n","g"," ","y","o","u","r"," ","s","a","v","i","n","g","s"," ","t","o"," ","a","n"," ","o","n","l","i","n","e"," ","b","a","n","k"," ","c","o","u","l","d"," ","e","a","r","n"," ","y","o","u"," ","a","n"," ","e","x","t","r","a"," ","$">>
                          \o IntToStr(additionalInterest) \o <<"/","y","e","a","r"," ","i","n"," ","i","n","t","e","r","e","s","t",".">>,
          savingsAmount |-> additionalInterest,
          type |-> tHighYield,
          actionLink |-> <<"/","i","n","s","i","g","h","t","s","/","s","a","v","i","n","g","s">>]>>
  ELSE <<>>

findHighYieldSavingsOpportunities(accounts) ==
  HighYieldInsight(SavingsAccounts(accounts), AdditionalInterest(TotalSavings(SavingsAccounts(accounts))))

\* `${date.getFullYear()}-${date.getMonth()}`: getMonth counts from 0
MonthYear(date) == IntToStr(date.y) \o <<"-">> \o IntToStr(date.m - 1)

\* code-unit order of the characters that occur in a month key
KeyChars == <<"-", "0", "1", "2", "3", "4", "5", "6", "7", "8", "9">>

\* a < b in the order Array.prototype.sort uses by default (code units)
RECURSIVE StrLess(_, _)
StrLess(a, b) ==
  IF Len(b) = 0 THEN FALSE
  ELSE IF Len(a) = 0 THEN TRUE
  ELSE IF a[1] = b[1] THEN StrLess(Tail(a), Tail(b))
  ELSE IndexIn(a[1], KeyChars) < IndexIn(b[1], KeyChars)

\* Object.keys(...).sort()
RECURSIVE SortKeys(_)
SortKeys(keys) ==
  IF keys = {} THEN <<>>
  ELSE LET least == CHOOSE a \in keys : \A b \in keys : a = b \/ StrLess(a, b)
       IN  <<least>> \o SortKeys(keys \ {least})

\* the forEach that fills spendingByMonthAndCategory, for one month: the
\* categories of the month in insertion order, each with its summed spend
RECURSIVE MonthSpending(_, _, _, _)
MonthSpending(transactions, k, monthYear, acc) ==
  IF k > Len(transactions) THEN acc
  ELSE LET t == transactions[k]
           at == {p \in 1..Len(acc) : acc[p].category = t.category}
           pos == CHOOSE p \in at : TRUE
       IN  IF t.amount >= 0 \/ MonthYear(t.date) # monthYear
           THEN MonthSpending(transactions, k + 1, monthYear, acc)
           ELSE IF at = {}
           THEN MonthSpending(transactions, k + 1, monthYear,
                  Append(acc, [category |-> t.category, amount |-> Abs(t.amount)]))
           ELSE MonthSpending(transactions, k + 1, monthYear,
                  [acc EXCEPT ![pos].amount = @ + Abs(t.amount)])

\* previousMonthData[category] || 0
SpendOf(monthData, category) ==
  LET at == {p \in 1..Len(monthData) : monthData[p].category = category}
  IN  IF at = {} THEN 0 ELSE monthData[CHOOSE p \in at : TRUE].amount

\* insights.sort((a, b) => Number(b.savingsAmount) - Number(a.savingsAmount)):
\* descending, elements that compare equal keep their order
RECURSIVE SortBySavings(_)
SortBySavings(items) ==
  IF Len(items) = 0 THEN <<>>
  ELSE LET top == CHOOSE p \in 1..Len(items) :
                    /\ \A q \in 1..Len(items) : items[q].savingsAmount <= items[p].savingsAmount
                    /\ \A q \in 1..(p - 1) : items[q].savingsAmount < items[p].savingsAmount
       IN  <<items[top]>> \o SortBySavings(SubSeq(items, 1, top - 1) \o SubSeq(items, top + 1, Len(items)))

\* the insight of one category of the current month, or nothing
SpendingAlert(category, amount, previousAmount) ==
  LET increasePercent == Round((amount - previousAmount) * 100, previousAmount)
      absoluteIncrease == Round(amount - previousAmount, 100)
      potentialSavings == Round(absoluteIncrease * 7, 10)
  IN  IF previousAmount > 5000 /\ increasePercent >= 20 /\ absoluteIncrease >= 50
         /\ category # cIncome /\ category # cOther
      THEN <<[title |-> category \o <<" ","S","p","e","n","d","i","n","g"," ","I","n","c","r","e","a","s","e","d">>,
              description |-> <<"Y","o","u","r"," ">> \o ToLowerCase(category) \o <<" ","s","p","e","n","d","i","n","g"," ","i","s"," ","u","p"," ">>
                              \o IntToStr(increasePercent)
                              \o <<"%"," ","f","r","o","m"," ","l","a","s","t"," ","m","o","n","t","h","."," ","S","e","t","t","i","n","g"," ","a"," ","b","u","d","g","e","t"," ","c","o","u","l","d"," ","s","a","v","e"," ","y","o","u"," ","$">>
                              \o IntToStr(potentialSavings) \o <<"/","m","o","n","t","h",".">>,
              savingsAmount |-> potentialSavings,
              type |-> tSpendingAlert,
              actionLink |-> <<"/","b","u","d","g","e","t","s","/","n","e","w">>]>>
      ELSE <<>>

RECURSIVE Concat(_)
Concat(seqs) == IF Len(seqs) = 0 THEN <<>> ELSE seqs[1] \o Concat(Tail(seqs))

\* the months that hold an expense: the keys of spendingByMonthAndCategory
ExpenseMonths(transactions) ==
  {MonthYear(transactions[k].date) :
     k \in {j \in 1..Len(transactions) : transactions[j].amount < 0}}

\* lines 515-539: the alerts of the categories of the current month, in the
\* order the categories were first seen
AlertsFor(currentMonthData, previousMonthData) ==
  Concat([p \in 1..Len(currentMonthData) |->
            SpendingAlert(currentMonthData[p].category, currentMonthData[p].amount,
                          SpendOf(previousMonthData, currentMonthData[p].category))])

\* variant: the first three alerts found are kept, unsorted
TopThreeFound(found) == SubSeq(found, 1, IF Len(found) < 3 THEN Len(found) ELSE 3)

\* lines 542-544: sort descending by savingsAmount, keep three
TopThreeSorted(sorted) == SubSeq(sorted, 1, IF Len(sorted) < 3 THEN Len(sorted) ELSE 3)
TopThree(found) == TopThreeSorted(SortBySavings(found))

\* lines 506-544, with months the sorted keys
CompareMonths(transactions, months) ==
  IF Len(months) < 2 THEN <<>>
  ELSE TopThree(AlertsFor(MonthSpending(transactions, 1, months[Len(months)], <<>>),
                          MonthSpending(transactions, 1, months[Len(months) - 1], <<>>)))

findSpendingIncreases(transactions) ==
  CompareMonths(transactions, SortKeys(ExpenseMonths(transactions)))

\* variant: the spending alerts are put first
generateInsightsAlertsFirst(transactions, accounts) ==
  IF Len(transactions) = 0 \/ Len(accounts) = 0 THEN <<>>
  ELSE findSpendingIncreases(transactions)
       \o findSubscriptionOverlaps(transactions)
       \o findHighYieldSavingsOpportunities(accounts)

\* variant: the early return is taken only when both lists are empty
generateInsightsBothEmpty(transactions, accounts) ==
  IF Len(transactions) = 0 /\ Len(accounts) = 0 THEN <<>>
  ELSE findSubscriptionOverlaps(transactions)
       \o findHighYieldSavingsOpportunities(accounts)
       \o findSpendingIncreases(transactions)

generateInsights(transactions, accounts) ==
  IF Len(transactions) = 0 \/ Len(accounts) = 0 THEN <<>>
  ELSE findSubscriptionOverlaps(transactions)
       \o findHighYieldSavingsOpportunities(accounts)
       \o findSpendingIncreases(transactions)

(***************************************************************************)
(* Inputs of the insight generator.                                        *)
(***************************************************************************)
InsTx(description, merchant, amount, category, y, m, d) ==
  [description |-> description, merchant |-> merchant, amount |-> amount,
   category |-> category, date |-> [y |-> y, m |-> m, d |-> d]]

InsTxs == {
  InsTx(<<"N","E","T","F","L","I","X",".","C","O","M">>, <<"N","e","t","f","l","i","x">>, -1599, cEntertainment, 2024, 1, 5),
  InsTx(<<"H","u","l","u"," ","p","l","a","n">>, <<"H","u","l","u">>, -799, cEntertainment, 2024, 1, 9),
  InsTx(<<"S","p","o","t","i","f","y">>, <<"S","p","o","t","i","f","y"," ","A","B">>, -999, cEntertainment, 2024, 2, 3),
  InsTx(<<"G","r","o","c","e","r","i","e","s">>, <<"C","o","r","n","e","r"," ","M","a","r","k","e","t">>, -10000, cFood, 2024, 1, 20),
  InsTx(<<"G","r","o","c","e","r","i","e","s">>, <<"C","o","r","n","e","r"," ","M","a","r","k","e","t">>, -16000, cFood, 2024, 2, 20),
  InsTx(<<"P","a","y","c","h","e","c","k">>, <<"A","c","m","e">>, 250000, cIncome, 2024, 2, 1)
}

\* one longer list: five streaming charges of four services and four
\* categories whose spending rose from January to February
InsStatement == <<
  InsTx(<<"N","E","T","F","L","I","X",".","C","O","M">>, <<"N","e","t","f","l","i","x">>, -1599, cEntertainment, 2024, 1, 5),
  InsTx(<<"H","u","l","u"," ","p","l","a","n">>, <<"H","u","l","u">>, -799, cEntertainment, 2024, 1, 9),
  InsTx(<<"G","r","o","c","e","r","i","e","s">>, <<"C","o","r","n","e","r"," ","M","a","r","k","e","t">>, -10000, cFood, 2024, 1, 20),
  InsTx(<<"S","h","o","e","s">>, <<"B","o","o","t"," ","B","a","r","n">>, -8000, cShopping, 2024, 1, 21),
  InsTx(<<"T","r","a","i","n">>, <<"R","a","i","l"," ","C","o">>, -6000, cTravel, 2024, 1, 22),
  InsTx(<<"R","e","n","t">>, <<"L","a","n","d","l","o","r","d">>, -100000, cHousing, 2024, 1, 28),
  InsTx(<<"S","p","o","t","i","f","y">>, <<"S","p","o","t","i","f","y"," ","A","B">>, -999, cEntertainment, 2024, 2, 3),
  InsTx(<<"M","o","n","t","h","l","y"," ","p","l","a","n">>, <<"D","i","s","n","e","y","+">>, -1399, cEntertainment, 2024, 2, 4),
  InsTx(<<"N","E","T","F","L","I","X",".","C","O","M">>, <<"N","e","t","f","l","i","x">>, -1599, cEntertainment, 2024, 2, 5),
  InsTx(<<"G","r","o","c","e","r","i","e","s">>, <<"C","o","r","n","e","r"," ","M","a","r","k","e","t">>, -16000, cFood, 2024, 2, 20),
  InsTx(<<"C","o","a","t">>, <<"B","o","o","t"," ","B","a","r","n">>, -20000, cShopping, 2024, 2, 21),
  InsTx(<<"F","l","i","g","h","t">>, <<"A","i","r"," ","C","o">>, -30000, cTravel, 2024, 2, 22),
  InsTx(<<"R","e","n","t">>, <<"L","a","n","d","l","o","r","d">>, -150000, cHousing, 2024, 2, 28),
  InsTx(<<"P","a","y","c","h","e","c","k">>, <<"A","c","m","e">>, 250000, cIncome, 2024, 2, 1)
>>

InsAccount(type, balance) == [type |-> type, balance |-> balance]

InsAccounts == {
  InsAccount(<<"s","a","v","i","n","g","s">>, 500000),
  InsAccount(<<"s","a","v","i","n","g","s">>, 100001),
  InsAccount(<<"S","a","v","i","n","g","s">>, 80000),
  InsAccount(<<"c","h","e","c","k","i","n","g">>, 900000)
}

InitIns ==
  /\ insTransactions \in SeqsUpTo(InsTxs, MaxTx) \cup {InsStatement}
  /\ insAccounts \in SeqsUpTo(InsAccounts, MaxAccounts)
  /\ insights = <<>>
  /\ insPc = "call"
  /\ IdleCsv
  /\ IdleCat
  /\ IdleRec
  /\ IdleRt
  /\ IdlePure
  /\ IdleSrv

\* generateInsights(transactions, accounts)
GenerateInsights ==
  /\ insPc = "call"
  /\ insights' = generateInsights(insTransactions, insAccounts)
  /\ insPc' = "done"
  /\ UNCHANGED <<insTransactions, insAccounts>>
  /\ UNCHANGED <<csvVars, catVars, recVars, rtVars, pureVars, srvVars>>

NextIns == GenerateInsights

SpecIns == InitIns /\ [][NextIns]_vars

(***************************************************************************)
(* The three analyses of generateInsights, each applied on its own to the  *)
(* list it reads.                                                          *)
(***************************************************************************)
MaxSubs == 4
MaxSav == 3
MaxSpend == 3

SubTxs == {
  InsTx(<<"N","E","T","F","L","I","X",".","C","O","M">>, <<"N","e","t","f","l","i","x">>, -1599, cEntertainment, 2024, 1, 5),
  InsTx(<<"H","u","l","u"," ","p","l","a","n">>, <<"H","u","l","u">>, -799, cEntertainment, 2024, 1, 9),
  InsTx(<<"S","p","o","t","i","f","y">>, <<"S","p","o","t","i","f","y"," ","A","B">>, -999, cEntertainment, 2024, 2, 3),
  InsTx(<<"H","u","l","u"," ","w","i","t","h"," ","N","e","t","f","l","i","x"," ","b","u","n","d","l","e"," ","r","e","f","u","n","d">>, <<"B","u","n","d","l","e">>, 1250, cEntertainment, 2024, 2, 7),
  InsTx(<<"M","o","n","t","h","l","y"," ","p","l","a","n">>, <<"D","i","s","n","e","y","+">>, -1125, cEntertainment, 2024, 2, 4),
  InsTx(<<"G","r","o","c","e","r","i","e","s">>, <<"C","o","r","n","e","r"," ","M","a","r","k","e","t">>, -10000, cFood, 2024, 1, 20)
}

InitSub ==
  /\ insTransactions \in SeqsUpTo(SubTxs, MaxSubs)
  /\ insAccounts = <<>>
  /\ insights = <<>>
  /\ insPc = "subscriptions"
  /\ IdleCsv
  /\ IdleCat
  /\ IdleRec
  /\ IdleRt
  /\ IdlePure
  /\ IdleSrv

\* findSubscriptionOverlaps(transactions)
FindSubscriptionOverlaps ==
  /\ insPc = "subscriptions"
  /\ insights' = findSubscriptionOverlaps(insTransactions)
  /\ insPc' = "done"
  /\ UNCHANGED <<insTransactions, insAccounts>>
  /\ UNCHANGED <<csvVars, catVars, recVars, rtVars, pureVars, srvVars>>

NextSub == FindSubscriptionOverlaps

SpecSub == InitSub /\ [][NextSub]_vars

SavAccounts == {
  InsAccount(<<"s","a","v","i","n","g","s">>, 500000),
  InsAccount(<<"s","a","v","i","n","g","s">>, 102000),
  InsAccount(<<"s","a","v","i","n","g","s">>, 100000),
  InsAccount(<<"s","a","v","i","n","g","s">>, 80000),
  InsAccount(<<"c","h","e","c","k","i","n","g">>, 900000)
}

InitSav ==
  /\ insAccounts \in SeqsUpTo(SavAccounts, MaxSav)
  /\ insTransactions = <<>>
  /\ insights = <<>>
  /\ insPc = "savings"
  /\ IdleCsv
  /\ IdleCat
  /\ IdleRec
  /\ IdleRt
  /\ IdlePure
  /\ IdleSrv

\* findHighYieldSavingsOpportunities(accounts)
FindHighYieldSavingsOpportunities ==
  /\ insPc = "savings"
  /\ insights' = findHighYieldSavingsOpportunities(insAccounts)
  /\ insPc' = "done"
  /\ UNCHANGED <<insTransactions, insAccounts>>
  /\ UNCHANGED <<csvVars, catVars, recVars, rtVars, pureVars, srvVars>>

NextSav == FindHighYieldSavingsOpportunities

SpecSav == InitSav /\ [][NextSav]_vars

SpendTx(category, y, m, amount) ==
  InsTx(category, <<"S","h","o","p">>, amount, category, y, m, 15)

SpendTxs == {
  SpendTx(cFood, 2024, 1, -10000),
  SpendTx(cFood, 2024, 2, -16000),
  SpendTx(cFood, 2024, 2, -14950),
  SpendTx(cFood, 2024, 10, -10000),
  SpendTx(cFood, 2024, 11, -16000),
  SpendTx(cOther, 2024, 1, -10000),
  SpendTx(cOther, 2024, 2, -30000),
  SpendTx(cShopping, 2023, 12, -8000),
  SpendTx(cFood, 2024, 3, 50000)
}

\* one longer list: four categories whose spending rose from January to
\* February
SpendStatement == <<
  SpendTx(cFood, 2024, 1, -10000),
  SpendTx(cShopping, 2024, 1, -8000),
  SpendTx(cTravel, 2024, 1, -6000),
  SpendTx(cHousing, 2024, 1, -100000),
  SpendTx(cFood, 2024, 2, -16000),
  SpendTx(cShopping, 2024, 2, -20000),
  SpendTx(cTravel, 2024, 2, -30000),
  SpendTx(cHousing, 2024, 2, -150000)
>>

InitSpend ==
  /\ insTransactions \in SeqsUpTo(SpendTxs, MaxSpend) \cup {SpendStatement}
  /\ insAccounts = <<>>
  /\ insights = <<>>
  /\ insPc = "spending"
  /\ IdleCsv
  /\ IdleCat
  /\ IdleRec
  /\ IdleRt
  /\ IdlePure
  /\ IdleSrv

\* findSpendingIncreases(transactions)
FindSpendingIncreases ==
  /\ insPc = "spending"
  /\ insights' = findSpendingIncreases(insTransactions)
  /\ insPc' = "done"
  /\ UNCHANGED <<insTransactions, insAccounts>>
  /\ UNCHANGED <<csvVars, catVars, recVars, rtVars, pureVars, srvVars>>

NextSpend == FindSpendingIncreases

SpecSpend == InitSpend /\ [][NextSpend]_vars

(***************************************************************************)
(* Recurring-transaction detector.  A date is a calendar day; getTime is   *)
(* counted in whole days, so the difference of two dates divided by the    *)
(* length of a day is already an integer.  An averageAmount is in          *)
(* hundredths.                                                             *)
(***************************************************************************)
MaxRec == 3

\* String.prototype.toUpperCase on one character
ToUpperChar(c) == IF IsIn(c, LowerChars) THEN UpperChars[IndexIn(c, LowerChars)] ELSE c

\* merchant.charAt(0).toUpperCase() + merchant.slice(1)
Capitalize(merchant) ==
  IF Len(merchant) = 0 THEN <<>> ELSE <<ToUpperChar(merchant[1])>> \o Tail(merchant)

\* Date.prototype.getTime in days: the days from 0000-01-01 to the date
IsLeap(y) == (y % 4 = 0 /\ y % 100 # 0) \/ y % 400 = 0
DaysBeforeMonth == <<0, 31, 59, 90, 120, 151, 181, 212, 243, 273, 304, 334>>
DaysBeforeYear(y) == 365 * y + ((y + 3) \div 4) - ((y + 99) \div 100) + ((y + 399) \div 400)
GetTime(date) ==
  DaysBeforeYear(date.y) + DaysBeforeMonth[date.m]
  + (IF date.m > 2 /\ IsLeap(date.y) THEN 1 ELSE 0) + date.d

\* the position of the merchant's item in recurringItems, 0 when it has none
ItemOf(items, merchant) ==
  IF \E p \in 1..Len(items) : items[p].merchant = merchant
  THEN CHOOSE p \in 1..Len(items) : items[p].merchant = merchant
  ELSE 0

\* lines 571-580: the item is created on the merchant's first transaction,
\* with that transaction's category, and the date and amount are pushed
OccurrencePushed(items, p, date, amount) ==
  [items EXCEPT ![p].dates = Append(@, date), ![p].amounts = Append(@, amount)]

Recorded(items, p, merchant, date, amount, category) ==
  IF p = 0
  THEN Append(items, [merchant |-> merchant, dates |-> <<date>>, amounts |-> <<amount>>,
                      category |-> category])
  ELSE OccurrencePushed(items, p, date, amount)

\* variant: the merchant is the key as written
RecordMerchantAsWritten(items, transaction) ==
  IF transaction.amount >= 0 \/ Abs(transaction.amount) < 500 THEN items
  ELSE Recorded(items, ItemOf(items, transaction.merchant),
                transaction.merchant, GetTime(transaction.date),
                Abs(transaction.amount), transaction.category)

\* lines 561-581: one transaction of the forEach
RecordTransaction(items, transaction) ==
  IF transaction.amount >= 0 \/ Abs(transaction.amount) < 500 THEN items
  ELSE Recorded(items, ItemOf(items, ToLowerCase(transaction.merchant)),
                ToLowerCase(transaction.merchant), GetTime(transaction.date),
                Abs(transaction.amount), transaction.category)

\* recurringItems after the forEach, in insertion order
RECURSIVE RecurringItems(_)
RecurringItems(transactions) ==
  IF Len(transactions) = 0 THEN <<>>
  ELSE RecordTransaction(RecurringItems(SubSeq(transactions, 1, Len(transactions) - 1)),
                         transactions[Len(transactions)])

\* data.dates.sort((a, b) => a.getTime() - b.getTime())
Smallest(ns) == CHOOSE p \in 1..Len(ns) : \A q \in 1..Len(ns) : ns[p] <= ns[q]
Without(ns, p) == SubSeq(ns, 1, p - 1) \o SubSeq(ns, p + 1, Len(ns))
RECURSIVE SortDates(_)
SortedFrom(ns, p) == <<ns[p]>> \o SortDates(Without(ns, p))
SortDates(ns) == IF Len(ns) = 0 THEN <<>> ELSE SortedFrom(ns, Smallest(ns))

\* lines 599-603: the sum of the day differences of consecutive dates
TotalDaysBetween(dates) == SumOf([k \in 1..(Len(dates) - 1) |-> dates[k + 1] - dates[k]])

fMonthly == <<"m","o","n","t","h","l","y">>
fWeekly == <<"w","e","e","k","l","y">>
fBiWeekly == <<"b","i","-","w","e","e","k","l","y">>
fQuarterly == <<"q","u","a","r","t","e","r","l","y">>
fUnclear == <<"u","n","k","n","o","w","n">>

\* variant: the windows are open at their upper ends
FrequencyOpenWindows(total, gaps) ==
  IF total >= 25 * gaps /\ total < 35 * gaps THEN fMonthly
  ELSE IF total >= 6 * gaps /\ total < 8 * gaps THEN fWeekly
  ELSE IF total >= 13 * gaps /\ total < 16 * gaps THEN fBiWeekly
  ELSE IF total >= 85 * gaps /\ total < 95 * gaps THEN fQuarterly
  ELSE fUnclear

\* lines 605-619, for avgDaysBetween = total / gaps
Frequency(total, gaps) ==
  IF total >= 25 * gaps /\ total <= 35 * gaps THEN fMonthly
  ELSE IF total >= 6 * gaps /\ total <= 8 * gaps THEN fWeekly
  ELSE IF total >= 13 * gaps /\ total <= 16 * gaps THEN fBiWeekly
  ELSE IF total >= 85 * gaps /\ total <= 95 * gaps THEN fQuarterly
  ELSE fUnclear

\* Math.round(avgAmount * 100) / 100, in hundredths
AverageAmount(amounts) == Round(SumOf(amounts), Len(amounts))

\* variant: a merchant whose frequency is unclear is pushed as well
RecurringEntryKeepUnclear(item, frequency) ==
  <<[merchant |-> Capitalize(item.merchant),
     category |-> item.category,
     averageAmount |-> AverageAmount(item.amounts),
     frequency |-> frequency]>>

\* lines 621-629
RecurringEntry(item, frequency) ==
  IF frequency = fUnclear THEN <<>>
  ELSE <<[merchant |-> Capitalize(item.merchant),
          category |-> item.category,
          averageAmount |-> AverageAmount(item.amounts),
          frequency |-> frequency]>>

\* lines 591-630: one merchant of the forEach
Analyzed(item) ==
  IF Len(item.dates) < 2 THEN <<>>
  ELSE RecurringEntry(item, Frequency(TotalDaysBetween(SortDates(item.dates)), Len(item.dates) - 1))

AnalyzedAll(items) == Concat([p \in 1..Len(items) |-> Analyzed(items[p])])

\* variant: ascending
SortByAverageAscending(entries) ==
  IF Len(entries) = 0 THEN <<>>
  ELSE [k \in 1..Len(entries) |->
          entries[CHOOSE p \in 1..Len(entries) :
                    Cardinality({q \in 1..Len(entries) :
                                   \/ entries[q].averageAmount < entries[p].averageAmount
                                   \/ entries[q].averageAmount = entries[p].averageAmount /\ q < p}) = k - 1]]

\* recurring.sort((a, b) => b.averageAmount - a.averageAmount): descending,
\* entries that compare equal keep their order
SortByAverage(entries) ==
  IF Len(entries) = 0 THEN <<>>
  ELSE [k \in 1..Len(entries) |->
          entries[CHOOSE p \in 1..Len(entries) :
                    Cardinality({q \in 1..Len(entries) :
                                   \/ entries[q].averageAmount > entries[p].averageAmount
                                   \/ entries[q].averageAmount = entries[p].averageAmount /\ q < p}) = k - 1]]

findRecurringTransactions(transactions) ==
  SortByAverage(AnalyzedAll(RecurringItems(transactions)))

(***************************************************************************)
(* Inputs of the recurring-transaction detector.                           *)
(***************************************************************************)
RecTx(merchant, amount, category, y, m, d) ==
  [merchant |-> merchant, amount |-> amount, category |-> category,
   date |-> [y |-> y, m |-> m, d |-> d]]

RecTxs == {
  RecTx(<<"S","p","o","t","i","f","y">>, -999, cEntertainment, 2024, 1, 1),
  RecTx(<<"S","P","O","T","I","F","Y">>, -999, cEntertainment, 2024, 1, 31),
  RecTx(<<"S","p","o","t","i","f","y">>, -999, cEntertainment, 2024, 3, 2),
  RecTx(<<"S","p","o","t","i","f","y">>, -1200, cShopping, 2024, 1, 8),
  RecTx(<<"S","p","o","t","i","f","y">>, -999, cEntertainment, 2024, 1, 6),
  RecTx(<<"S","p","o","t","i","f","y">>, -999, cEntertainment, 2024, 3, 1),
  RecTx(<<"S","p","o","t","i","f","y">>, -499, cEntertainment, 2024, 1, 31),
  RecTx(<<"S","p","o","t","i","f","y">>, -500, cEntertainment, 2024, 1, 31),
  RecTx(<<"S","p","o","t","i","f","y">>, 999, cIncome, 2024, 1, 31),
  RecTx(<<"G","y","m">>, -4000, cHealthcare, 2024, 1, 15)
}

\* four merchants that recur, weekly, monthly, bi-weekly and quarterly, in
\* ascending order of amount and with dates out of order
RecStatement == <<
  RecTx(<<"c","o","f","f","e","e"," ","c","a","r","t">>, -650, cFood, 2024, 1, 15),
  RecTx(<<"c","o","f","f","e","e"," ","c","a","r","t">>, -650, cFood, 2024, 1, 1),
  RecTx(<<"C","o","f","f","e","e"," ","C","a","r","t">>, -650, cFood, 2024, 1, 8),
  RecTx(<<"S","p","o","t","i","f","y">>, -999, cEntertainment, 2024, 1, 1),
  RecTx(<<"S","P","O","T","I","F","Y">>, -999, cEntertainment, 2024, 1, 31),
  RecTx(<<"S","p","o","t","i","f","y">>, -999, cEntertainment, 2024, 3, 2),
  RecTx(<<"G","y","m">>, -4000, cHealthcare, 2024, 1, 15),
  RecTx(<<"G","y","m">>, -4000, cHealthcare, 2024, 1, 29),
  RecTx(<<"l","a","n","d","l","o","r","d">>, -120000, cHousing, 2024, 3, 31),
  RecTx(<<"l","a","n","d","l","o","r","d">>, -120000, cHousing, 2024, 1, 1),
  RecTx(<<"P","a","y","c","h","e","c","k">>, 250000, cIncome, 2024, 1, 1),
  RecTx(<<"P","a","y","c","h","e","c","k">>, 250000, cIncome, 2024, 1, 31)
>>

\* merchants whose mean gap is at an end of a window or just outside of one
RecBoundaries == <<
  RecTx(<<"a","2","5">>, -1000, cOther, 2024, 1, 1), RecTx(<<"a","2","5">>, -1000, cOther, 2024, 1, 26),
  RecTx(<<"b","3","5">>, -1100, cOther, 2024, 1, 1), RecTx(<<"b","3","5">>, -1100, cOther, 2024, 2, 5),
  RecTx(<<"c","3","6">>, -1200, cOther, 2024, 1, 1), RecTx(<<"c","3","6">>, -1200, cOther, 2024, 2, 6),
  RecTx(<<"d","2","4">>, -1300, cOther, 2024, 1, 1), RecTx(<<"d","2","4">>, -1300, cOther, 2024, 1, 25),
  RecTx(<<"e","8">>, -1400, cOther, 2024, 1, 1), RecTx(<<"e","8">>, -1400, cOther, 2024, 1, 9),
  RecTx(<<"f","8","h","a","l","f">>, -1500, cOther, 2024, 1, 1), RecTx(<<"f","8","h","a","l","f">>, -1500, cOther, 2024, 1, 9),
  RecTx(<<"f","8","h","a","l","f">>, -1500, cOther, 2024, 1, 18),
  RecTx(<<"g","1","6">>, -1600, cOther, 2024, 1, 1), RecTx(<<"g","1","6">>, -1600, cOther, 2024, 1, 17),
  RecTx(<<"h","1","7">>, -1700, cOther, 2024, 1, 1), RecTx(<<"h","1","7">>, -1700, cOther, 2024, 1, 18),
  RecTx(<<"i","8","5">>, -1800, cOther, 2024, 1, 1), RecTx(<<"i","8","5">>, -1800, cOther, 2024, 3, 26),
  RecTx(<<"j","9","6">>, -1900, cOther, 2024, 1, 1), RecTx(<<"j","9","6">>, -1900, cOther, 2024, 4, 6)
>>

InitRec ==
  /\ recTransactions \in SeqsUpTo(RecTxs, MaxRec) \cup {RecStatement, RecBoundaries}
  /\ recurring = <<>>
  /\ recPc = "call"
  /\ IdleCsv
  /\ IdleCat
  /\ IdleIns
  /\ IdleRt
  /\ IdlePure
  /\ IdleSrv

\* findRecurringTransactions(transactions)
FindRecurringTransactions ==
  /\ recPc = "call"
  /\ recurring' = findRecurringTransactions(recTransactions)
  /\ recPc' = "done"
  /\ UNCHANGED recTransactions
  /\ UNCHANGED <<csvVars, catVars, insVars, rtVars, pureVars, srvVars>>

NextRec == FindRecurringTransactions

SpecRec == InitRec /\ [][NextRec]_vars

(***************************************************************************)
(* transactionsToCSV, and the parse of what it wrote.                      *)
(***************************************************************************)
MaxExport == 2

Pad2(n) == IF n < 10 THEN <<"0">> \o IntToStr(n) ELSE IntToStr(n)

\* Date.prototype.toISOString of a date with year 1000..9999
ToISOString(date) ==
  IntToStr(date.y) \o <<"-">> \o Pad2(date.m) \o <<"-">> \o Pad2(date.d)
  \o <<"T">> \o Pad2(date.h) \o <<":","0","0",":","0","0",".","0","0","0","Z">>

\* s.replace(/"/g, '""')
DoubleQuotes(s) ==
  Concat([k \in 1..Len(s) |-> IF s[k] = "\"" THEN <<"\"", "\"">> ELSE <<s[k]>>])

\* variant: the quote characters are dropped
DropQuotes(s) == SelectSeq(s, LAMBDA c : c # "\"")

Quoted(s) == <<"\"">> \o DoubleQuotes(s) \o <<"\"">>

\* Number.prototype.toFixed(2) of an amount held in hundredths
ToFixed2(amount) ==
  (IF amount < 0 THEN <<"-">> ELSE <<>>)
  \o IntToStr(Abs(amount) \div 100) \o <<".">> \o Pad2(Abs(amount) % 100)

\* lines 220-226: the line of one transaction
CsvLineOf(tx) ==
  Split(ToISOString(tx.date), "T")[1] \o <<",">>
  \o Quoted(tx.description) \o <<",">>
  \o ToFixed2(tx.amount) \o <<",">>
  \o (IF Truthy(tx.category) THEN tx.category ELSE cOther) \o <<",">>
  \o Quoted(IF Truthy(tx.merchant) THEN tx.merchant ELSE <<>>)
  \o <<"\n">>

\* lines 214-230
transactionsToCSV(transactions) ==
  <<"D","a","t","e",",","D","e","s","c","r","i","p","t","i","o","n",",","A","m","o","u","n","t",",","C","a","t","e","g","o","r","y",",","M","e","r","c","h","a","n","t">> \o <<"\n">>
  \o Concat([k \in 1..Len(transactions) |-> CsvLineOf(transactions[k])])

ExportTx(description, merchant, amount, category, y, m, d, h) ==
  [description |-> description, merchant |-> merchant, amount |-> amount,
   category |-> category, date |-> [y |-> y, m |-> m, d |-> d, h |-> h]]

ExportTxs == {
  ExportTx(<<"N","e","t","f","l","i","x"," ","M","o","n","t","h","l","y">>, <<"N","e","t","f","l","i","x">>, -1599, cEntertainment, 2024, 1, 15, 0),
  ExportTx(<<"R","e","n","t",","," ","M","a","y">>, <<"L","a","n","d","l","o","r","d">>, -120000, cHousing, 2024, 5, 1, 13),
  ExportTx(<<"P","a","y","c","h","e","c","k">>, <<"A","c","m","e",","," ","I","n","c",".">>, 250000, cIncome, 2023, 12, 31, 23),
  ExportTx(<<"G","i","f","t"," ","\"","f","o","r"," ","A","n","n","\"">>, <<"G","i","f","t"," ","s","h","o","p">>, -500, cOther, 2024, 2, 9, 8),
  ExportTx(<<"C","o","f","f","e","e">>, <<>>, -350, cFood, 2024, 2, 10, 8)
}

InitExport ==
  /\ csvTransactions \in SeqsUpTo(ExportTxs, MaxExport)
  /\ csvData = <<>>
  /\ accountId \in AccountIds
  /\ lines = <<>>
  /\ headers = <<>>
  /\ format = fNull
  /\ i = 0
  /\ result = [transactions |-> <<>>, errors |-> <<>>]
  /\ pc = "export"
  /\ IdleCat
  /\ IdleIns
  /\ IdleRec
  /\ IdlePure
  /\ IdleSrv

\* the list is written, and the text is handed to parseTransactionCsv
TransactionsToCSV ==
  /\ pc = "export"
  /\ csvData' = transactionsToCSV(csvTransactions)
  /\ pc' = "start"
  /\ UNCHANGED <<accountId, lines, headers, format, i, result>>
  /\ UNCHANGED <<catVars, insVars, recVars, rtVars, pureVars, srvVars>>

NextExport == TransactionsToCSV \/ ParseHeader \/ ParseLine \/ ParseReturn

SpecExport == InitExport /\ [][NextExport]_vars

(***************************************************************************)
(* The pure functions called one after another on the same arguments.      *)
(* Records are objects of a heap and lists hold references, so that a      *)
(* write to an argument is a change of the heap.                           *)
(***************************************************************************)
MaxCalls == 3

\* the records a list of references points to
Deref(objects, refs) == [k \in 1..Len(refs) |-> objects[refs[k]]]

\* lines 43-55 for the physical lines 2..n
RECURSIVE ParsedUpTo(_, _, _, _, _)
ParsedUpTo(ls, hs, fmt, acct, n) ==
  IF n <= 1 THEN [transactions |-> <<>>, errors |-> <<>>]
  ELSE IF Trim(ls[n]) = <<>> THEN ParsedUpTo(ls, hs, fmt, acct, n - 1)
  ELSE Pushed(ParsedUpTo(ls, hs, fmt, acct, n - 1), n - 1,
              parseCsvLine(Trim(ls[n]), hs, fmt, acct))

ParsedLines(ls, hs, fmt, acct) ==
  IF fmt = fNull THEN [transactions |-> <<>>, errors |-> <<UnsupportedFormatError>>]
  ELSE ParsedUpTo(ls, hs, fmt, acct, Len(ls))

ParsedWith(ls, hs, acct) == ParsedLines(ls, hs, detectCsvFormat(hs), acct)

\* lines 23-58 as one call
parseTransactionCsv(data, acct) ==
  ParsedWith(SplitLines(data), HeaderOf(SplitLines(data)[1]), acct)

\* line 318: the element has no category or the category "Other"
NeedsCategory(object) == ~Truthy(object.category) \/ object.category = cOther

\* lines 319-322: {...transaction, category: categorizeTransaction(transaction)}
Recategorized(object) == [object EXCEPT !.category = categorizeTransaction(object)]

\* the new objects, in the order of the elements they were made from
NewObjects(objects, refs) ==
  [k \in 1..Len(SelectSeq(Deref(objects, refs), NeedsCategory)) |->
     Recategorized(SelectSeq(Deref(objects, refs), NeedsCategory)[k])]

NewUpTo(objects, refs, n) == Cardinality({j \in 1..n : NeedsCategory(objects[refs[j]])})

\* variant: the category is written into the element itself
BatchOutcomeInPlace(objects, refs) ==
  [heap |-> [r \in 1..Len(objects) |->
               IF (\E k \in 1..Len(refs) : refs[k] = r) /\ NeedsCategory(objects[r])
               THEN Recategorized(objects[r]) ELSE objects[r]],
   result |-> refs]

\* lines 315-326: map builds a new list; its callback returns a new object
\* made by spread with the category replaced, or the element itself
BatchOutcome(objects, refs) ==
  [heap |-> objects \o NewObjects(objects, refs),
   result |-> [k \in 1..Len(refs) |->
                 IF NeedsCategory(objects[refs[k]])
                 THEN Len(objects) + NewUpTo(objects, refs, k)
                 ELSE refs[k]]]

PureTx(description, merchant, amount, category, y, m, d) ==
  [description |-> description, merchant |-> merchant, amount |-> amount,
   category |-> category, date |-> [y |-> y, m |-> m, d |-> d]]

\* the argument sets: transactions, accounts, CSV text
PureCases == {
  [transactions |-> <<PureTx(<<"N","E","T","F","L","I","X",".","C","O","M">>, <<"N","e","t","f","l","i","x">>, -1599, cOther, 2024, 1, 5),
                      PureTx(<<"H","u","l","u"," ","p","l","a","n">>, <<"H","u","l","u">>, -799, cEntertainment, 2024, 1, 9),
                      PureTx(<<"N","e","t","f","l","i","x">>, <<"N","E","T","F","L","I","X">>, -1599, <<>>, 2024, 2, 4)>>,
   accounts |-> <<[type |-> <<"s","a","v","i","n","g","s">>, balance |-> 500000]>>,
   csvData |-> <<"d","a","t","e",",","d","e","s","c","r","i","p","t","i","o","n",",","a","m","o","u","n","t">> \o <<"\n">> \o <<"2","0","2","4","-","0","1","-","1","5",",","N","e","t","f","l","i","x"," ","M","o","n","t","h","l","y",",","-","1","5",".","9","9">>
               \o <<"\n">> \o <<"n","o","t","a","d","a","t","e",",","C","o","f","f","e","e",",","-","3",".","5","0">>],
  [transactions |-> <<PureTx(<<"G","y","m">>, <<"G","y","m">>, -4000, cOther, 2024, 1, 15),
                      PureTx(<<"G","y","m">>, <<"G","Y","M">>, -4000, cHealthcare, 2024, 1, 1)>>,
   accounts |-> <<[type |-> <<"c","h","e","c","k","i","n","g">>, balance |-> 900000],
                  [type |-> <<"s","a","v","i","n","g","s">>, balance |-> 100001]>>,
   csvData |-> <<"d","a","t","e",",","m","e","m","o",",","a","m","o","u","n","t">> \o <<"\n">> \o <<"2","0","2","4","-","0","1","-","1","5",",","N","e","t","f","l","i","x"," ","M","o","n","t","h","l","y",",","-","1","5",".","9","9">>],
  [transactions |-> <<PureTx(<<"P","a","y","c","h","e","c","k">>, <<"A","c","m","e">>, 250000, cIncome, 2024, 2, 1)>>,
   accounts |-> <<>>,
   csvData |-> <<"d","a","t","e",",","d","e","s","c","r","i","p","t","i","o","n",",","d","e","b","i","t",",","c","r","e","d","i","t">> \o <<"\n">> \o <<"2","0","2","4","-","0","2","-","0","1",",","P","a","y","c","h","e","c","k"," ","f","r","o","m"," ","A","c","m","e",",",",","2","5","0","0">>]
}

RefsFrom(first, n) == [k \in 1..n |-> first + k - 1]

InitPure ==
  /\ \E case \in PureCases :
       /\ heap = case.transactions \o case.accounts
       /\ pureArgs = [transactions |-> RefsFrom(1, Len(case.transactions)),
                      accounts |-> RefsFrom(Len(case.transactions) + 1, Len(case.accounts)),
                      csvData |-> case.csvData,
                      accountId |-> 1]
  /\ pureLog = <<>>
  /\ IdleCsv
  /\ IdleCat
  /\ IdleIns
  /\ IdleRec
  /\ IdleRt
  /\ IdleSrv

\* a call that reads its arguments and returns a value built from them
Returned(fn, value) ==
  /\ Len(pureLog) < MaxCalls
  /\ pureLog' = Append(pureLog, [fn |-> fn, value |-> value])
  /\ UNCHANGED <<heap, pureArgs>>
  /\ UNCHANGED <<csvVars, catVars, insVars, recVars, rtVars, srvVars>>

CallParseTransactionCsv ==
  Returned("parseTransactionCsv", parseTransactionCsv(pureArgs.csvData, pureArgs.accountId))

CallCategorizeTransaction ==
  /\ Len(pureArgs.transactions) > 0
  /\ Returned("categorizeTransaction", categorizeTransaction(heap[pureArgs.transactions[1]]))

CallSuggestCategory ==
  /\ Len(pureArgs.transactions) > 0
  /\ Returned("suggestCategory", suggestCategory(heap[pureArgs.transactions[1]].description))

CallFindRecurringTransactions ==
  Returned("findRecurringTransactions",
           findRecurringTransactions(Deref(heap, pureArgs.transactions)))

CallGenerateInsights ==
  Returned("generateInsights",
           generateInsights(Deref(heap, pureArgs.transactions), Deref(heap, pureArgs.accounts)))

\* categorizeBatch returns a list of references, some of them to new objects
BatchReturned(after) ==
  /\ Len(pureLog) < MaxCalls
  /\ heap' = after.heap
  /\ pureLog' = Append(pureLog, [fn |-> "categorizeBatch", value |-> Deref(after.heap, after.result)])
  /\ UNCHANGED pureArgs
  /\ UNCHANGED <<csvVars, catVars, insVars, recVars, rtVars, srvVars>>

CallCategorizeBatch ==
  BatchReturned(BatchOutcome(heap, pureArgs.transactions))

NextPure ==
  \/ CallParseTransactionCsv
  \/ CallCategorizeTransaction
  \/ CallSuggestCategory
  \/ CallCategorizeBatch
  \/ CallFindRecurringTransactions
  \/ CallGenerateInsights

SpecPure == InitPure /\ [][NextPure]_vars

(***************************************************************************)
(* The server: MemStorage and the routes that write to it.  The methods of  *)
(* MemStorage return settled promises, so a handler that awaits them goes  *)
(* on in the same turn of the event loop, before any aggregator reply is   *)
(* handled; only handlers of requests read from one socket in that turn    *)
(* take turns at these awaits.  A handler step therefore runs from one     *)
(* await of the aggregator to the next, and the disconnect handler, which  *)
(* reads the accounts and then writes, has a step for each.                *)
(***************************************************************************)
MaxRequests == 3
MaxLinks == 1

\* null of a numeric column and of a text column
NoId == 0
NoText == ""

\* rows.get(id): the rows with that id, none when there is no such row
RowsWithId(rows, id) == SelectSeq(rows, LAMBDA row : row.id = id)

\* storage.ts 217-222
createCategory(s, category) ==
  [s EXCEPT !.categories = Append(@, [id |-> s.categoryId, name |-> category.name]),
            !.categoryId = @ + 1]

\* variant: an insight equal to a stored one is not stored again
createInsightOnce(s, insight) ==
  IF \E k \in 1..Len(s.insights) :
       s.insights[k].type = insight.type /\ s.insights[k].savingsAmount = insight.savingsAmount
  THEN s
  ELSE [s EXCEPT !.insights = Append(@, [id |-> s.insightId, type |-> insight.type,
                                         savingsAmount |-> insight.savingsAmount]),
                 !.insightId = @ + 1]

\* storage.ts 229-240
createInsight(s, insight) ==
  [s EXCEPT !.insights = Append(@, [id |-> s.insightId, type |-> insight.type,
                                    savingsAmount |-> insight.savingsAmount]),
            !.insightId = @ + 1]

\* storage.ts 134-146; lastUpdated: new Date() is kept as "created" here and
\* as "updated" in updateAccount, the later Date
createAccount(s, account) ==
  [s EXCEPT !.accounts = Append(@, [id |-> s.accountId,
                                    balance |-> account.balance,
                                    plaidItemId |-> account.plaidItemId,
                                    plaidAccountId |-> account.plaidAccountId,
                                    isPlaidConnected |-> account.isPlaidConnected,
                                    lastUpdated |-> "created"]),
            !.accountId = @ + 1]

\* {...account, ...accountUpdate, lastUpdated: new Date()}
Merged(account, accountUpdate) ==
  [field \in DOMAIN account |->
     IF field = "lastUpdated" THEN "updated"
     ELSE IF field \in DOMAIN accountUpdate THEN accountUpdate[field]
     ELSE account[field]]

\* storage.ts 148-155
updateAccount(s, id, accountUpdate) ==
  [s EXCEPT !.accounts = [k \in 1..Len(s.accounts) |->
                            IF s.accounts[k].id = id
                            THEN Merged(s.accounts[k], accountUpdate)
                            ELSE s.accounts[k]]]

\* storage.ts 179-193
createTransaction(s, transaction) ==
  [s EXCEPT !.transactions = Append(@, [id |-> s.transactionId,
                                        accountId |-> transaction.accountId,
                                        plaidTransactionId |-> transaction.plaidTransactionId]),
            !.transactionId = @ + 1]

\* storage.ts 195-202
RECURSIVE createTransactions(_, _)
createTransactions(s, transactions) ==
  IF Len(transactions) = 0 THEN s
  ELSE createTransactions(createTransaction(s, transactions[1]), Tail(transactions))

\* storage.ts 255-267
createPlaidItem(s, item) ==
  [s EXCEPT !.plaidItems = Append(@, [id |-> s.plaidItemId, itemId |-> item.itemId,
                                      accessToken |-> item.accessToken]),
            !.plaidItemId = @ + 1]

\* storage.ts 278-280
deletePlaidItem(s, id) ==
  [s EXCEPT !.plaidItems = SelectSeq(@, LAMBDA item : item.id # id)]

\* storage.ts 75-93: the default categories, in the order of the list
defaultCategories ==
  <<cHousing, cFood, cTransportation, cShopping, cUtilities, cHealthcare,
    cEntertainment, cTravel, cEducation, cIncome, cOther>>

\* storage.ts 95-123: the sample insights
defaultInsights ==
  <<[type |-> tSubscription, savingsAmount |-> 14],
    [type |-> tHighYield, savingsAmount |-> 420],
    [type |-> tSpendingAlert, savingsAmount |-> 150]>>

RECURSIVE initializeCategories(_, _)
initializeCategories(s, names) ==
  IF Len(names) = 0 THEN s
  ELSE initializeCategories(createCategory(s, [name |-> names[1]]), Tail(names))

RECURSIVE initializeInsights(_, _)
initializeInsights(s, list) ==
  IF Len(list) = 0 THEN s
  ELSE initializeInsights(createInsight(s, list[1]), Tail(list))

\* storage.ts 56-73: the constructor
MemStorage ==
  initializeInsights(
    initializeCategories(
      [accounts |-> <<>>, transactions |-> <<>>, categories |-> <<>>,
       insights |-> <<>>, plaidItems |-> <<>>,
       accountId |-> 1, transactionId |-> 1, categoryId |-> 1,
       insightId |-> 1, plaidItemId |-> 1],
      defaultCategories),
    defaultInsights)

(***************************************************************************)
(* syncTransactions, part_008 90-181.                                      *)
(***************************************************************************)
\* 93-94: the accounts of the Plaid item
PlaidAccountsOf(s, plaidItemId) ==
  SelectSeq(s.accounts, LAMBDA acc : acc.plaidItemId = plaidItemId)

\* 101-106 and 113: accountMap.get(account_id), the last account set under
\* that key, NoId when there is none
AccountMapGet(plaidAccounts, plaidAccountId) ==
  IF \E k \in 1..Len(plaidAccounts) : plaidAccounts[k].plaidAccountId = plaidAccountId
  THEN plaidAccounts[Greatest({k \in 1..Len(plaidAccounts) :
                                 plaidAccounts[k].plaidAccountId = plaidAccountId})].id
  ELSE NoId

AccountMap(plaidAccounts) ==
  [plaidAccountId \in {"acct_1", "acct_2"} |-> AccountMapGet(plaidAccounts, plaidAccountId)]

\* 112-148: the fetched transactions that belong to a mapped account
Mapped(plaidTransactions, accountMap) ==
  [k \in 1..Len(SelectSeq(plaidTransactions, LAMBDA pt : accountMap[pt.account_id] # NoId)) |->
     [accountId |-> accountMap[SelectSeq(plaidTransactions,
                                         LAMBDA pt : accountMap[pt.account_id] # NoId)[k].account_id],
      plaidTransactionId |-> SelectSeq(plaidTransactions,
                                       LAMBDA pt : accountMap[pt.account_id] # NoId)[k].transaction_id]]

\* 155-162
ExistingPlaidTransactionIds(s) ==
  {s.transactions[k].plaidTransactionId :
     k \in {j \in 1..Len(s.transactions) : s.transactions[j].plaidTransactionId # NoText}}

\* 165-167
NewTransactions(s, transactions) ==
  SelectSeq(transactions, LAMBDA t : /\ t.plaidTransactionId # NoText
                                     /\ t.plaidTransactionId \notin ExistingPlaidTransactionIds(s))

\* 150-176: the store after the fetched transactions were handled
Synced(s, plaidTransactions, accountMap) ==
  createTransactions(s, NewTransactions(s, Mapped(plaidTransactions, accountMap)))

(***************************************************************************)
(* What the aggregator can answer.                                         *)
(***************************************************************************)
\* the balances the aggregator reports, in the order it comes to report them
PlaidBalances == <<100, 250>>

PlaidAccountLists == {<<>>, <<"acct_1">>, <<"acct_1", "acct_2">>}

PlaidTx(transaction_id, account_id) ==
  [transaction_id |-> transaction_id, account_id |-> account_id]

PlaidBatches == {
  <<>>,
  <<PlaidTx("tx_1", "acct_1"), PlaidTx("tx_2", "acct_2")>>,
  <<PlaidTx("tx_1", "acct_1"), PlaidTx("tx_1", "acct_1")>>
}

CategoryNames == {cFood, <<"P","e","t","s">>}

InsightPayloads == {[type |-> tHighYield, savingsAmount |-> 125],
                    [type |-> tSubscription, savingsAmount |-> 14]}

AccountIdParams == 1..2

(***************************************************************************)
(* The routes.  requests holds the number of requests received, the        *)
(* handlers that wait for the aggregator, and the last response sent.      *)
(***************************************************************************)
Handler(route, id, at, plaidItem, accessToken, accountMap) ==
  [route |-> route, id |-> id, pc |-> at, plaidItem |-> plaidItem,
   accessToken |-> accessToken, accountMap |-> accountMap, relatedAccounts |-> 0]

\* res.status(status).json(...)
Answered(req, route, id, status, plaidItem) ==
  [req EXCEPT !.response = [n |-> @.n + 1, route |-> route, id |-> id,
                            status |-> status, plaidItem |-> plaidItem]]

\* a request that is answered without waiting for the aggregator
Served(req, route, id, status) ==
  Answered([req EXCEPT !.received = @ + 1], route, id, status, NoId)

\* a request whose handler waits for the aggregator
Started(req, handler) ==
  [req EXCEPT !.received = @ + 1, !.handlers = Append(@, handler)]

\* handler r sends its response and ends
Finished(req, r, status) ==
  Answered([req EXCEPT !.handlers = [k \in 1..(Len(@) - 1) |-> IF k < r THEN @[k] ELSE @[k + 1]]],
           req.handlers[r].route, req.handlers[r].id, status, req.handlers[r].plaidItem)

InitServer ==
  /\ storage = MemStorage
  /\ plaid = [balance |-> PlaidBalances[1], issued |-> 0, links |-> 0]
  /\ requests = [received |-> 0, handlers |-> <<>>,
                 response |-> [n |-> 0, route |-> "", id |-> NoId, status |-> 0,
                               plaidItem |-> NoId]]
  /\ IdleCsv
  /\ IdleCat
  /\ IdleIns
  /\ IdleRec
  /\ IdleRt
  /\ IdlePure

Others == <<csvVars, catVars, insVars, recVars, rtVars, pureVars>>

Received == requests.received < MaxRequests

\* part_008 412-424
PostCategory ==
  /\ Received
  /\ \E name \in CategoryNames :
       storage' = createCategory(storage, [name |-> name])
  /\ requests' = Served(requests, "POST /api/categories", NoId, 201)
  /\ UNCHANGED <<plaid, Others>>

\* part_008 436-448
PostInsight ==
  /\ Received
  /\ \E insight \in InsightPayloads :
       storage' = createInsight(storage, insight)
  /\ requests' = Served(requests, "POST /api/insights", NoId, 201)
  /\ UNCHANGED <<plaid, Others>>

\* part_008 465-474: the token is missing, or exchangePublicToken is awaited
ExchangeToken ==
  /\ Received
  /\ plaid.links < MaxLinks
  /\ \E publicToken \in {NoText, "public-token"} :
       requests' = IF publicToken = NoText
                   THEN Served(requests, "POST /api/plaid/exchange-token", NoId, 400)
                   ELSE Started(requests,
                                Handler("POST /api/plaid/exchange-token", NoId,
                                        "exchangePublicToken", NoId, NoId, AccountMap(<<>>)))
  /\ plaid' = [plaid EXCEPT !.links = @ + 1]
  /\ UNCHANGED <<storage, Others>>

\* a reply of the aggregator is handled in a later turn of the event loop,
\* when the handlers that went on in this one have ended
TurnEnded == \A r \in 1..Len(requests.handlers) : requests.handlers[r].pc # "relatedAccounts"

\* part_008 474-491: the exchange failed, or the item is stored and
\* fetchAccounts is awaited
PublicTokenExchanged(r) ==
  /\ TurnEnded
  /\ requests.handlers[r].pc = "exchangePublicToken"
  /\ \/ /\ requests' = Finished(requests, r, 500)
        /\ UNCHANGED <<storage, plaid>>
     \/ /\ plaid' = [plaid EXCEPT !.issued = @ + 1]
        /\ storage' = createPlaidItem(storage, [itemId |-> plaid'.issued,
                                                accessToken |-> plaid'.issued])
        /\ requests' = [requests EXCEPT !.handlers[r].pc = "fetchAccounts",
                                        !.handlers[r].plaidItem = storage.plaidItemId,
                                        !.handlers[r].accessToken = plaid'.issued]
  /\ UNCHANGED Others

\* part_008 499: account.balances.current?.toString() || "0"
BalanceText(balance) == IF balance = 0 THEN <<"0">> ELSE IntToStr(balance)

\* part_008 494-506: one account is created per aggregator account
RECURSIVE AccountsCreated(_, _, _, _)
AccountsCreated(s, plaidAccounts, balance, plaidItemId) ==
  IF Len(plaidAccounts) = 0 THEN s
  ELSE AccountsCreated(
         createAccount(s, [balance |-> BalanceText(balance),
                           plaidItemId |-> plaidItemId,
                           plaidAccountId |-> plaidAccounts[1],
                           isPlaidConnected |-> TRUE]),
         Tail(plaidAccounts), balance, plaidItemId)

\* part_008 91-109 inside 516: no account of the item throws, else
\* fetchTransactions is awaited with the account map built
SyncStarted(req, r, s) ==
  IF Len(PlaidAccountsOf(s, req.handlers[r].plaidItem)) = 0
  THEN Finished(req, r, 500)
  ELSE [req EXCEPT !.handlers[r].pc = "fetchTransactions",
                   !.handlers[r].accountMap =
                     AccountMap(PlaidAccountsOf(s, req.handlers[r].plaidItem))]

\* part_008 491-516
AccountsFetched(r) ==
  /\ TurnEnded
  /\ requests.handlers[r].pc = "fetchAccounts"
  /\ \/ /\ requests' = Finished(requests, r, 500)
        /\ UNCHANGED storage
     \/ \E plaidAccounts \in PlaidAccountLists :
          /\ storage' = AccountsCreated(storage, plaidAccounts, plaid.balance,
                                        requests.handlers[r].plaidItem)
          /\ requests' = SyncStarted(requests, r, storage')
  /\ UNCHANGED <<plaid, Others>>

\* part_008 528-555: the guards of the route, 0 when they all pass
GuardStatus(s, id) ==
  IF Len(RowsWithId(s.accounts, id)) = 0 THEN 404
  ELSE IF ~RowsWithId(s.accounts, id)[1].isPlaidConnected
          \/ RowsWithId(s.accounts, id)[1].plaidItemId = NoId THEN 400
  ELSE IF Len(RowsWithId(s.plaidItems, RowsWithId(s.accounts, id)[1].plaidItemId)) = 0 THEN 404
  ELSE 0

\* part_008 528-555, then syncTransactions up to its await of
\* fetchTransactions
SyncAccount ==
  /\ Received
  /\ \E id \in AccountIdParams :
       requests' =
         IF GuardStatus(storage, id) # 0
         THEN Served(requests, "POST /api/plaid/sync-account/:id", id, GuardStatus(storage, id))
         ELSE Started(requests,
                Handler("POST /api/plaid/sync-account/:id", id, "fetchTransactions",
                        RowsWithId(storage.accounts, id)[1].plaidItemId,
                        RowsWithId(storage.plaidItems,
                                   RowsWithId(storage.accounts, id)[1].plaidItemId)[1].accessToken,
                        AccountMap(PlaidAccountsOf(storage,
                                                   RowsWithId(storage.accounts, id)[1].plaidItemId))))
  /\ UNCHANGED <<storage, plaid, Others>>

\* part_008 109-176, then 518 or 557-563: fetchTransactions failed, or the
\* new transactions are stored; sync-account then stamps the account
TransactionsFetched(r) ==
  /\ TurnEnded
  /\ requests.handlers[r].pc = "fetchTransactions"
  /\ \/ /\ requests' = Finished(requests, r, 500)
        /\ UNCHANGED storage
     \/ \E plaidTransactions \in PlaidBatches :
          /\ storage' =
               IF requests.handlers[r].route = "POST /api/plaid/sync-account/:id"
               THEN updateAccount(Synced(storage, plaidTransactions,
                                         requests.handlers[r].accountMap),
                                  requests.handlers[r].id, [lastUpdated |-> "updated"])
               ELSE Synced(storage, plaidTransactions, requests.handlers[r].accountMap)
          /\ requests' = Finished(requests, r, 200)
  /\ UNCHANGED <<plaid, Others>>

\* part_008 593-604: the item is deleted when the accounts read held this
\* account alone, and the account is disconnected
Disconnected(s, id, plaidItemId, relatedAccounts) ==
  updateAccount(
    IF relatedAccounts = 1 THEN deletePlaidItem(s, plaidItemId) ELSE s,
    id,
    [isPlaidConnected |-> FALSE, plaidItemId |-> NoId, plaidAccountId |-> NoText])

\* part_008 570-591: the guards of the route, then the accounts of the item
\* are read
DisconnectAccount ==
  /\ Received
  /\ \E id \in AccountIdParams :
       requests' =
         IF GuardStatus(storage, id) # 0
         THEN Served(requests, "POST /api/plaid/disconnect-account/:id", id,
                     GuardStatus(storage, id))
         ELSE Started(requests,
                [Handler("POST /api/plaid/disconnect-account/:id", id, "relatedAccounts",
                         RowsWithId(storage.accounts, id)[1].plaidItemId, NoId,
                         AccountMap(<<>>))
                   EXCEPT !.relatedAccounts =
                     Len(PlaidAccountsOf(storage,
                                         RowsWithId(storage.accounts, id)[1].plaidItemId))])
  /\ UNCHANGED <<storage, plaid, Others>>

\* part_008 593-609
AccountDisconnected(r) ==
  /\ requests.handlers[r].pc = "relatedAccounts"
  /\ storage' = Disconnected(storage, requests.handlers[r].id, requests.handlers[r].plaidItem,
                             requests.handlers[r].relatedAccounts)
  /\ requests' = Finished(requests, r, 200)
  /\ UNCHANGED <<plaid, Others>>

\* the aggregator learns of a new balance
BalanceChanges ==
  /\ \E k \in 1..(Len(PlaidBalances) - 1) :
       /\ plaid.balance = PlaidBalances[k]
       /\ plaid' = [plaid EXCEPT !.balance = PlaidBalances[k + 1]]
  /\ UNCHANGED <<storage, requests, Others>>

NextServer ==
  \/ PostCategory
  \/ PostInsight
  \/ ExchangeToken
  \/ \E r \in 1..Len(requests.handlers) : PublicTokenExchanged(r)
  \/ \E r \in 1..Len(requests.handlers) : AccountsFetched(r)
  \/ SyncAccount
  \/ \E r \in 1..Len(requests.handlers) : TransactionsFetched(r)
  \/ DisconnectAccount
  \/ \E r \in 1..Len(requests.handlers) : AccountDisconnected(r)
  \/ BalanceChanges

SpecServer == InitServer /\ [][NextServer]_vars

(***************************************************************************)
(* Properties of the CSV parser.                                           *)
(***************************************************************************)
Taxonomy == {cHousing, cFood, cTransportation, cShopping, cUtilities, cHealthcare,
             cEntertainment, cEducation, cTravel, cIncome, cOther}

\* the header cells of the file: first line, lower-cased, split on commas, trimmed
HeaderCells == TrimAll(Split(ToLowerCase(lines[1]), ","))

HasCell(name) == ArrayIncludes(HeaderCells, name)
StandardCells(cells) ==
  ArrayIncludes(cells, hDate) /\ ArrayIncludes(cells, hDescription) /\ ArrayIncludes(cells, hAmount)
BankCells(cells) ==
  /\ ~ArrayIncludes(cells, hAmount) /\ ArrayIncludes(cells, hDate)
  /\ ArrayIncludes(cells, hDescription)
  /\ (ArrayIncludes(cells, hDebit) \/ ArrayIncludes(cells, hCredit))
StandardHeader == StandardCells(HeaderCells)
BankHeader == BankCells(HeaderCells)

\* physical line numbers (header is line 1) of the non-blank data lines up to line n
NonBlankUpTo(n) == {k \in 2..n : Trim(lines[k]) # <<>>}

ErrorPrefix == <<"E","r","r","o","r"," ","o","n"," ","l","i","n","e"," ">>
ErrorRest(e) == SubSeq(e, Len(ErrorPrefix) + 1, Len(e))
\* e reads 'Error on line N: <reason>' with a non-empty reason
IsLineError(e) ==
  /\ Len(e) > Len(ErrorPrefix)
  /\ SubSeq(e, 1, Len(ErrorPrefix)) = ErrorPrefix
  /\ LET rest == ErrorRest(e)
         n == DigitRun(rest)
     IN  /\ n > 0
         /\ Len(rest) > n + 2
         /\ SubSeq(rest, n + 1, n + 2) = <<":"," ">>
ErrorLine(e) == LET rest == ErrorRest(e) IN DigitsVal(SubSeq(rest, 1, DigitRun(rest)))

\* C1: with a recognized header, after the loop has handled the lines up to
\* physical line i, the transactions and the errors together count the
\* non-blank data lines handled so far; every error reads
\* 'Error on line N: <reason>' where N is the physical number of a non-blank
\* data line, in increasing order; and the parse ends only after the last line.
C1_OneOutcomePerLine ==
  (pc \in {"loop", "done"} /\ format # fNull) =>
    /\ Len(result.transactions) + Len(result.errors) = Cardinality(NonBlankUpTo(i))
    /\ \A k \in 1..Len(result.errors) :
         /\ IsLineError(result.errors[k])
         /\ ErrorLine(result.errors[k]) \in NonBlankUpTo(i)
         /\ \A j \in 1..(k - 1) : ErrorLine(result.errors[j]) < ErrorLine(result.errors[k])
    /\ (pc = "done" => i = Len(lines))

\* a failing row on line 2 is reported and the row on line 3 is still parsed
C1_Witness ==
  /\ pc = "done"
  /\ format # fNull
  /\ Len(lines) = 3
  /\ Len(result.errors) = 1
  /\ ErrorLine(result.errors[1]) = 2
  /\ Len(result.transactions) = 1

\* C2: when the header cells hold neither {date, description, amount} nor
\* {date, description} with debit or credit, the parse is over right after the
\* header with zero transactions and exactly one error, and no row was looked at.
C2_UnrecognizedHeader ==
  (pc # "start" /\ ~StandardHeader /\ ~BankHeader) =>
    /\ pc = "done"
    /\ result.transactions = <<>>
    /\ Len(result.errors) = 1
    /\ i = 0

\* an unrecognized header followed by two non-blank rows
C2_Witness ==
  /\ pc = "done"
  /\ ~StandardHeader /\ ~BankHeader
  /\ Len(lines) = 3
  /\ Trim(lines[2]) # <<>> /\ Trim(lines[3]) # <<>>
  /\ Len(result.errors) = 1

\* the non-blank data lines of the file, trimmed, in file order
DataRows ==
  LET trimmed == [k \in 1..(Len(lines) - 1) |-> Trim(lines[k + 1])]
  IN  SelectSeq(trimmed, LAMBDA l : l # <<>>)

CellOf(row, name) == RowField(HeaderCells, parseCsvValues(row), name)

\* enough fields, a parseable date, a numeric amount
WellFormedStandardRow(row) ==
  /\ Len(parseCsvValues(row)) >= Len(HeaderCells)
  /\ Truthy(CellOf(row, hDate))
  /\ RowDate(CellOf(row, hDate)).valid
  /\ ~ParseFloat(CellOf(row, hAmount)).nan

\* C3: a standard file whose N data rows are all well-formed gives exactly N
\* transactions, the k-th from the k-th row, and no error.
C3_WellFormedStandard ==
  (pc = "done" /\ StandardHeader /\ \A k \in 1..Len(DataRows) : WellFormedStandardRow(DataRows[k])) =>
    /\ result.errors = <<>>
    /\ Len(result.transactions) = Len(DataRows)
    /\ \A k \in 1..Len(DataRows) :
         /\ result.transactions[k].amount = ParseFloat(CellOf(DataRows[k], hAmount)).val
         /\ result.transactions[k].date = RowDate(CellOf(DataRows[k], hDate))
         /\ result.transactions[k].description =
              (IF CellOf(DataRows[k], hDescription) = <<>> THEN <<"U","n","k","n","o","w","n">>
               ELSE CellOf(DataRows[k], hDescription))

\* two different well-formed rows, one of them with more cells than the header
C3_Witness ==
  /\ pc = "done"
  /\ StandardHeader
  /\ Len(DataRows) = 2
  /\ \A k \in 1..2 : WellFormedStandardRow(DataRows[k])
  /\ Len(parseCsvValues(DataRows[1])) > Len(HeaderCells)
  /\ Len(result.transactions) = 2
  /\ result.transactions[1].amount # result.transactions[2].amount

\* a cell parses to a number > 0
Positive(cell) == ~ParseFloat(cell).nan /\ ParseFloat(cell).val > 0

LastOf(s) == s[Len(s)]

\* C4: each step of the loop over a row with enough fields and a good date:
\* under a bank header the amount is -debit when debit is positive, else
\* +credit when credit is positive, else the row gives the error 'Missing or
\* invalid debit/credit values' and no transaction; under a header that has an
\* amount column the amount is that column's value whatever debit and credit hold.
C4_BankAmount ==
  [][(/\ pc = "loop" /\ i < Len(lines) /\ i' = i + 1
      /\ Trim(lines[i + 1]) # <<>>
      /\ Len(parseCsvValues(Trim(lines[i + 1]))) >= Len(HeaderCells)
      /\ Truthy(CellOf(Trim(lines[i + 1]), hDate))
      /\ RowDate(CellOf(Trim(lines[i + 1]), hDate)).valid)
     =>
     LET row == Trim(lines[i + 1])
         debit == CellOf(row, hDebit)
         credit == CellOf(row, hCredit)
         added(amount) == /\ Len(result'.transactions) = Len(result.transactions) + 1
                          /\ LastOf(result'.transactions).amount = amount
                          /\ result'.errors = result.errors
     IN  /\ BankHeader =>
              IF Positive(debit) THEN added(0 - ParseFloat(debit).val)
              ELSE IF Positive(credit) THEN added(ParseFloat(credit).val)
              ELSE /\ result'.transactions = result.transactions
                   /\ result'.errors = Append(result.errors,
                        ErrorPrefix \o IntToStr(i + 1) \o <<":"," ","M","i","s","s","i","n","g"," ","o","r"," ","i","n","v","a","l","i","d"," ","d","e","b","i","t","/","c","r","e","d","i","t"," ","v","a","l","u","e","s">>)
         /\ (StandardHeader /\ ~ParseFloat(CellOf(row, hAmount)).nan) =>
              added(ParseFloat(CellOf(row, hAmount)).val)
    ]_vars

\* a bank row with debit 40 and credit 10 became a transaction of -40
C4_Witness ==
  /\ pc = "done"
  /\ BankHeader
  /\ HasCell(hDebit) /\ HasCell(hCredit)
  /\ \E k \in 1..Len(DataRows) :
       /\ Len(parseCsvValues(DataRows[k])) >= Len(HeaderCells)
       /\ Positive(CellOf(DataRows[k], hDebit))
       /\ Positive(CellOf(DataRows[k], hCredit))
  /\ \E k \in 1..Len(result.transactions) : result.transactions[k].amount = -4000

\* C8: every transaction the parser creates carries a category of the taxonomy.
C8_CategoryInTaxonomy ==
  \A k \in 1..Len(result.transactions) : result.transactions[k].category \in Taxonomy

(***************************************************************************)
(* Properties of the classifier.                                           *)
(***************************************************************************)
SearchTextOf(tx) == ToLowerCase(tx.description \o <<" ">> \o tx.merchant)

\* C5: a transaction with amount > 0 is classified Income whatever its text.
C5_IncomeShortCircuit ==
  catPc # "each" =>
    \A k \in 1..Len(batchIn) : batchIn[k].amount > 0 => catResults[k] = cIncome

\* the fixed order of the rule table
TableOrder == <<cHousing, cFood, cTransportation, cShopping, cUtilities, cHealthcare,
                cEntertainment, cEducation, cTravel, cIncome>>

\* some keyword listed for the category occurs in the text
KeywordHit(category, text) ==
  \E r \in 1..Len(categoryRules) :
    /\ categoryRules[r].category = category
    /\ \E w \in 1..Len(categoryRules[r].keywords) : Includes(text, categoryRules[r].keywords[w])

\* a positive amount whose text holds keywords of an expense category
C5_Witness ==
  /\ catPc = "done"
  /\ \E k \in 1..Len(batchIn) :
       /\ batchIn[k].amount > 0
       /\ KeywordHit(cFood, SearchTextOf(batchIn[k]))
       /\ catResults[k] = cIncome

ExpectedCategory(text) ==
  LET hits == {p \in 1..Len(TableOrder) : KeywordHit(TableOrder[p], text)}
  IN  IF hits = {} THEN cOther
      ELSE TableOrder[CHOOSE p \in hits : \A q \in hits : p <= q]

\* the only keyword of the table that occurs in the text is 'gas'
OnlyGas(text) ==
  /\ Includes(text, <<"g","a","s">>)
  /\ \A r \in 1..Len(categoryRules) : \A w \in 1..Len(categoryRules[r].keywords) :
       Includes(text, categoryRules[r].keywords[w]) => categoryRules[r].keywords[w] = <<"g","a","s">>

\* C6: for amount <= 0 the result is the category of the first rule, in the
\* order Housing, Food, Transportation, Shopping, Utilities, Healthcare,
\* Entertainment, Education, Travel, Income, with a keyword in the lower-cased
\* 'description merchant' text, 'Other' when there is none; a text whose only
\* keyword is 'gas' is Transportation.
C6_FirstRuleWins ==
  catPc # "each" =>
    \A k \in 1..Len(batchIn) : batchIn[k].amount <= 0 =>
      /\ catResults[k] = ExpectedCategory(SearchTextOf(batchIn[k]))
      /\ OnlyGas(SearchTextOf(batchIn[k])) => catResults[k] = cTransportation

\* an expense whose only keyword is 'gas', listed under Transportation and Utilities
C6_Witness ==
  /\ catPc = "done"
  /\ \E k \in 1..Len(batchIn) :
       /\ batchIn[k].amount <= 0
       /\ OnlyGas(SearchTextOf(batchIn[k]))
       /\ KeywordHit(cUtilities, SearchTextOf(batchIn[k]))
       /\ catResults[k] = cTransportation

\* C7: the result is Income if and only if amount > 0.
C7_IncomeIffPositive ==
  catPc # "each" =>
    \A k \in 1..Len(batchIn) : (catResults[k] = cIncome) <=> (batchIn[k].amount > 0)

Missing(category) == category = Undefined \/ category = <<>>

\* C9: categorizeBatch keeps length and order, returns an element whose
\* category is set and not 'Other' unchanged, gives every other element
\* categorizeTransaction's result as its category and nothing else new, and
\* applied to its own output returns that output.
C9_BatchIdempotent ==
  /\ Len(batchOut) >= 1 =>
       /\ Len(batchOut[1]) = Len(batchIn)
       /\ \A k \in 1..Len(batchIn) :
            IF Missing(batchIn[k].category) \/ batchIn[k].category = cOther
            THEN batchOut[1][k] = [batchIn[k] EXCEPT !.category = catResults[k]]
            ELSE batchOut[1][k] = batchIn[k]
  /\ Len(batchOut) = 2 => batchOut[2] = batchOut[1]

\* a list with an element that keeps its category, although the classifier
\* would give another one, next to an element that is re-categorized
C9_Witness ==
  /\ catPc = "done"
  /\ Len(batchOut) = 2
  /\ \E k \in 1..Len(batchIn) :
       /\ batchIn[k].category = cFood
       /\ catResults[k] # cFood
       /\ batchOut[2][k].category = cFood
  /\ \E k \in 1..Len(batchIn) :
       /\ batchIn[k].category = cOther
       /\ batchOut[2][k].category \notin {cOther, cFood}

(***************************************************************************)
(* Properties of the insight generator.                                    *)
(***************************************************************************)
\* C10: generateInsights returns the empty list when the transaction list or
\* the account list is empty.
C10_EmptyInputNoInsights ==
  (insPc = "done" /\ (insTransactions = <<>> \/ insAccounts = <<>>)) => insights = <<>>

\* three streaming services and no account: the transactions alone would give
\* the subscription insight
C10_Witness ==
  /\ insPc = "done"
  /\ insAccounts = <<>>
  /\ findSubscriptionOverlaps(insTransactions) # <<>>
  /\ insights = <<>>

\* the position of an insight type in the order subscription, high-yield,
\* spending-alert
TypeRank(type) ==
  IF type = tSubscription THEN 1 ELSE IF type = tHighYield THEN 2
  ELSE IF type = tSpendingAlert THEN 3 ELSE 0

CountOfType(list, type) == Cardinality({k \in 1..Len(list) : list[k].type = type})

\* C11: the list generateInsights returns holds at most one subscription
\* insight, then at most one high-yield insight, then at most three spending
\* alerts: never more than 5 insights, and no insight of a later type before
\* one of an earlier type.
C11_FixedOrder ==
  insPc = "done" =>
    /\ \A k \in 1..Len(insights) : TypeRank(insights[k].type) \in 1..3
    /\ \A j, k \in 1..Len(insights) :
         j < k => TypeRank(insights[j].type) <= TypeRank(insights[k].type)
    /\ CountOfType(insights, tSubscription) <= 1
    /\ CountOfType(insights, tHighYield) <= 1
    /\ CountOfType(insights, tSpendingAlert) <= 3
    /\ Len(insights) <= 5

\* all three analyses report: one subscription insight, one high-yield
\* insight and three alerts out of four categories that rose
C11_Witness ==
  /\ insPc = "done"
  /\ Len(insights) = 5
  /\ insights[1].type = tSubscription
  /\ insights[2].type = tHighYield
  /\ insights[5].type = tSpendingAlert
  /\ Len(AlertsFor(MonthSpending(insTransactions, 1, <<"2","0","2","4","-","1">>, <<>>),
                   MonthSpending(insTransactions, 1, <<"2","0","2","4","-","0">>, <<>>))) = 4

\* the 'description merchant' text of a transaction, lower-cased
SubscriptionText(tx) == ToLowerCase(tx.description \o <<" ">> \o tx.merchant)

\* the positions in the keyword list of the keywords the text contains
KeywordsIn(text) ==
  {p \in 1..Len(subscriptionKeywords) : Includes(text, subscriptionKeywords[p])}

\* the keyword a transaction is matched to: the first of the list in its text
MatchedKeyword(tx) == subscriptionKeywords[Least(KeywordsIn(SubscriptionText(tx)))]

\* the transactions of the list that contain a keyword, in list order
MatchedTxs(txs) == SelectSeq(txs, LAMBDA tx : KeywordsIn(SubscriptionText(tx)) # {})

\* the keywords matched, each once, in order of first occurrence
RECURSIVE DistinctKeywords(_)
DistinctKeywords(matched) ==
  IF Len(matched) = 0 THEN <<>>
  ELSE IF \E k \in 1..(Len(matched) - 1) : MatchedKeyword(matched[k]) = MatchedKeyword(matched[Len(matched)])
  THEN DistinctKeywords(SubSeq(matched, 1, Len(matched) - 1))
  ELSE Append(DistinctKeywords(SubSeq(matched, 1, Len(matched) - 1)), MatchedKeyword(matched[Len(matched)]))

\* C12: findSubscriptionOverlaps returns one insight exactly when at least 3
\* distinct keywords were matched, each transaction being matched to the first
\* keyword of the list that occurs in its lower-cased 'description merchant'
\* text; the insight names the first 3 distinct keywords in order of first
\* occurrence and its savingsAmount is round(0.4 x the sum of |amount| over
\* all matched transactions).
C12_SubscriptionOverlap ==
  insPc = "done" =>
    IF Len(DistinctKeywords(MatchedTxs(insTransactions))) >= 3
    THEN /\ Len(insights) = 1
         /\ insights[1].type = tSubscription
         /\ Includes(insights[1].description,
                     <<"(">> \o Join(SubSeq(DistinctKeywords(MatchedTxs(insTransactions)), 1, 3), <<","," ">>) \o <<")">>)
         /\ insights[1].savingsAmount =
              Round(4 * SumOf([k \in 1..Len(MatchedTxs(insTransactions)) |->
                                 Abs(MatchedTxs(insTransactions)[k].amount)]), 1000)
    ELSE insights = <<>>

\* four services, one of them charged through a text that holds two keywords
\* and has a positive amount
C12_Witness ==
  /\ insPc = "done"
  /\ insAccounts = <<>>
  /\ Len(insTransactions) = 4
  /\ Len(DistinctKeywords(MatchedTxs(insTransactions))) = 4
  /\ \E k \in 1..4 : /\ Cardinality(KeywordsIn(SubscriptionText(insTransactions[k]))) = 2
                     /\ insTransactions[k].amount > 0
                     /\ k < 4
  /\ Len(insights) = 1

\* the accounts that count: type 'savings' and a balance above 1000
Qualifying(accounts) ==
  {k \in 1..Len(accounts) : accounts[k].type = <<"s","a","v","i","n","g","s">> /\ accounts[k].balance > 100000}

\* S, in hundredths: the sum of the balances of the qualifying accounts
RECURSIVE BalanceSum(_, _)
BalanceSum(accounts, ks) ==
  IF ks = {} THEN 0
  ELSE accounts[Least(ks)].balance + BalanceSum(accounts, ks \ {Least(ks)})

\* round(S x 0.025), in dollars, for S in hundredths
RoundedYield(s) == Round(s * 25, 100000)

ExpenseMonthNumbers(txs) ==
  {txs[k].date.y * 12 + (txs[k].date.m - 1) : k \in {j \in 1..Len(txs) : txs[j].amount < 0}}

\* the chronologically latest month with an expense, and the latest before it
LatestMonth(txs) == Greatest(ExpenseMonthNumbers(txs))
PreviousMonth(txs) == Greatest(ExpenseMonthNumbers(txs) \ {LatestMonth(txs)})

\* the key the code gives a month number
MonthKey(n) == IntToStr(n \div 12) \o <<"-">> \o IntToStr(n % 12)

\* C14: the spending alerts are those of the chronologically latest month
\* with expenses compared with the latest month before it, whatever the
\* months and years are; fewer than two months with expenses give no alert.
C14_LatestTwoMonths ==
  insPc = "done" =>
    IF Cardinality(ExpenseMonthNumbers(insTransactions)) < 2
    THEN insights = <<>>
    ELSE insights =
           TopThree(AlertsFor(
             MonthSpending(insTransactions, 1, MonthKey(LatestMonth(insTransactions)), <<>>),
             MonthSpending(insTransactions, 1, MonthKey(PreviousMonth(insTransactions)), <<>>)))

\* what a category spent in a month, in hundredths
RECURSIVE CategorySpend(_, _, _)
CategorySpend(txs, category, month) ==
  IF Len(txs) = 0 THEN 0
  ELSE CategorySpend(Tail(txs), category, month)
       + (IF txs[1].amount < 0 /\ txs[1].category = category
             /\ txs[1].date.y * 12 + (txs[1].date.m - 1) = month
          THEN 0 - txs[1].amount ELSE 0)

\* P and C of a category: its spend in the previous and in the latest month
SpendP(txs, category) == CategorySpend(txs, category, PreviousMonth(txs))
SpendC(txs, category) == CategorySpend(txs, category, LatestMonth(txs))

\* P > 50, (C - P)/P >= 20%, C - P >= 50, category neither Income nor Other
QualifiesForAlert(txs, category) ==
  /\ SpendP(txs, category) > 5000
  /\ (SpendC(txs, category) - SpendP(txs, category)) * 100 >= 20 * SpendP(txs, category)
  /\ SpendC(txs, category) - SpendP(txs, category) >= 5000
  /\ category # cIncome /\ category # cOther

AlertsOf(list, category) ==
  {k \in 1..Len(list) : list[k].title = category \o <<" ","S","p","e","n","d","i","n","g"," ","I","n","c","r","e","a","s","e","d">>}

\* C15: with at most three qualifying categories, a category has a spending
\* alert if and only if P > 50, (C - P)/P >= 20%, C - P >= 50 and it is neither
\* Income nor Other, and the savingsAmount of the alert is round(0.7 x (C - P)).
C15_AlertThresholds ==
  (insPc = "done" /\ Cardinality(ExpenseMonthNumbers(insTransactions)) >= 2
   /\ Cardinality({c \in Taxonomy : QualifiesForAlert(insTransactions, c)}) <= 3) =>
    \A c \in Taxonomy :
      IF QualifiesForAlert(insTransactions, c)
      THEN /\ Cardinality(AlertsOf(insights, c)) = 1
           /\ \A k \in AlertsOf(insights, c) :
                insights[k].savingsAmount =
                  Round(7 * (SpendC(insTransactions, c) - SpendP(insTransactions, c)), 1000)
      ELSE AlertsOf(insights, c) = {}

\* the alerts the code collects before it sorts and cuts them
AlertsFound(txs) ==
  IF Cardinality(ExpenseMonths(txs)) < 2 THEN <<>>
  ELSE AlertsFor(
         MonthSpending(txs, 1, SortKeys(ExpenseMonths(txs))[Cardinality(ExpenseMonths(txs))], <<>>),
         MonthSpending(txs, 1, SortKeys(ExpenseMonths(txs))[Cardinality(ExpenseMonths(txs)) - 1], <<>>))

\* C16: of the k alerts collected, min(3, k) are returned, in non-increasing
\* savingsAmount order, and no alert that is left out has a larger
\* savingsAmount than one that is returned.
C16_TopThree ==
  insPc = "done" =>
    /\ Len(insights) = (IF Len(AlertsFound(insTransactions)) < 3
                        THEN Len(AlertsFound(insTransactions)) ELSE 3)
    /\ \A k \in 1..Len(insights) :
         \E f \in 1..Len(AlertsFound(insTransactions)) : AlertsFound(insTransactions)[f] = insights[k]
    /\ \A j, k \in 1..Len(insights) :
         j < k => insights[j].savingsAmount >= insights[k].savingsAmount
    /\ \A f \in 1..Len(AlertsFound(insTransactions)) :
         (\A k \in 1..Len(insights) : insights[k] # AlertsFound(insTransactions)[f]) =>
           \A k \in 1..Len(insights) :
             insights[k].savingsAmount >= AlertsFound(insTransactions)[f].savingsAmount

\* four alerts collected; the one found first has the smallest savingsAmount
\* and is the one left out
C16_Witness ==
  /\ insPc = "done"
  /\ Len(AlertsFound(insTransactions)) = 4
  /\ Len(insights) = 3
  /\ \A k \in 1..3 : insights[k] # AlertsFound(insTransactions)[1]
  /\ insights[1].savingsAmount > insights[2].savingsAmount
  /\ insights[2].savingsAmount > insights[3].savingsAmount

(***************************************************************************)
(* Properties of the recurring-transaction detector.                       *)
(***************************************************************************)
\* an expense of at least 5
CountsAsRecurring(tx) == tx.amount < 0 /\ 0 - tx.amount >= 500

\* the transactions of a merchant, compared in lower case, that count
GroupOf(txs, key) ==
  SelectSeq(txs, LAMBDA tx : CountsAsRecurring(tx) /\ ToLowerCase(tx.merchant) = key)

GroupAmounts(group) == SumOf([k \in 1..Len(group) |-> 0 - group[k].amount])

\* avg, in hundredths, is the mean of the group's amounts rounded to cents
IsRoundedMean(avg, group) ==
  /\ 2 * (avg * Len(group) - GroupAmounts(group)) <= Len(group)
  /\ 2 * (GroupAmounts(group) - avg * Len(group)) <= Len(group)

\* C17: every entry stands for one lower-cased merchant that has at least 2
\* transactions with amount < 0 and |amount| >= 5, is computed from all of
\* those transactions and from no other, and no merchant has two entries.
C17_GroupedByMerchant ==
  recPc = "done" =>
    /\ \A k \in 1..Len(recurring) :
         /\ Len(GroupOf(recTransactions, ToLowerCase(recurring[k].merchant))) >= 2
         /\ IsRoundedMean(recurring[k].averageAmount,
                          GroupOf(recTransactions, ToLowerCase(recurring[k].merchant)))
    /\ \A j, k \in 1..Len(recurring) :
         j # k => ToLowerCase(recurring[j].merchant) # ToLowerCase(recurring[k].merchant)

\* an entry computed from 'Spotify' and 'SPOTIFY' with different amounts,
\* next to transactions of the merchant that do not count
C17_Witness ==
  /\ recPc = "done"
  /\ Len(recurring) = 1
  /\ \E j, k \in 1..Len(recTransactions) :
       /\ recTransactions[j].merchant = <<"S","p","o","t","i","f","y">>
       /\ recTransactions[k].merchant = <<"S","P","O","T","I","F","Y">>
       /\ CountsAsRecurring(recTransactions[j]) /\ CountsAsRecurring(recTransactions[k])
       /\ recTransactions[j].amount # recTransactions[k].amount
  /\ Len(GroupOf(recTransactions, <<"s","p","o","t","i","f","y">>)) = 3

\* the lower-cased merchants that have at least 2 transactions that count
RecurringKeys(txs) ==
  {key \in {ToLowerCase(txs[k].merchant) : k \in 1..Len(txs)} : Len(GroupOf(txs, key)) >= 2}

\* first and last day of a group
FirstDay(group) == Least({GetTime(group[k].date) : k \in 1..Len(group)})
LastDay(group) == Greatest({GetTime(group[k].date) : k \in 1..Len(group)})

\* the gaps between consecutive sorted dates add up to last day - first day,
\* so the mean gap g is (last day - first day) / (n - 1); lo <= g <= hi
MeanGapIn(group, lo, hi) ==
  /\ LastDay(group) - FirstDay(group) >= lo * (Len(group) - 1)
  /\ LastDay(group) - FirstDay(group) <= hi * (Len(group) - 1)

ExpectedFrequency(group) ==
  IF MeanGapIn(group, 25, 35) THEN <<"m","o","n","t","h","l","y">>
  ELSE IF MeanGapIn(group, 6, 8) THEN <<"w","e","e","k","l","y">>
  ELSE IF MeanGapIn(group, 13, 16) THEN <<"b","i","-","w","e","e","k","l","y">>
  ELSE IF MeanGapIn(group, 85, 95) THEN <<"q","u","a","r","t","e","r","l","y">>
  ELSE <<"n","o","n","e">>

EntriesOf(list, key) == {k \in 1..Len(list) : ToLowerCase(list[k].merchant) = key}

C18_BoundaryWitness ==
  /\ recPc = "done"
  /\ Cardinality(RecurringKeys(recTransactions)) = 10
  /\ Len(recurring) = 5

\* a gap lies in one of the four windows
GapInWindow(gap) ==
  \/ gap >= 25 /\ gap <= 35
  \/ gap >= 6 /\ gap <= 8
  \/ gap >= 13 /\ gap <= 16
  \/ gap >= 85 /\ gap <= 95

\* the gaps between the consecutive sorted dates of a group
GapsOf(group) ==
  LET days == SortDates([k \in 1..Len(group) |-> GetTime(group[k].date)])
  IN  [k \in 1..(Len(days) - 1) |-> days[k + 1] - days[k]]

\* C19 as stated: every entry belongs to a merchant all of whose consecutive
\* gaps lie inside a window.
C19_EveryGapInWindow ==
  recPc = "done" =>
    \A k \in 1..Len(recurring) :
      \A g \in 1..Len(GapsOf(GroupOf(recTransactions, ToLowerCase(recurring[k].merchant)))) :
        GapInWindow(GapsOf(GroupOf(recTransactions, ToLowerCase(recurring[k].merchant)))[g])

\* C19 amended: every entry belongs to a merchant whose mean gap lies inside
\* one of the four windows; a merchant whose mean gap lies outside all of them
\* has no entry.
C19_MeanGapInWindow ==
  recPc = "done" =>
    \A k \in 1..Len(recurring) :
      \E w \in {<<25, 35>>, <<6, 8>>, <<13, 16>>, <<85, 95>>} :
        MeanGapIn(GroupOf(recTransactions, ToLowerCase(recurring[k].merchant)), w[1], w[2])

\* gaps of 5 and 55 days, both outside every window, with mean 30: an entry
\* is there
C19_Witness ==
  /\ recPc = "done"
  /\ Len(recurring) = 1
  /\ GapsOf(GroupOf(recTransactions, <<"s","p","o","t","i","f","y">>)) = <<5, 55>>

\* C20: the list is in non-increasing averageAmount order, and the merchant
\* of an entry is the lower-cased merchant of its transactions with the first
\* character upper-cased and nothing else changed.
C20_SortedAndCapitalized ==
  recPc = "done" =>
    /\ \A j, k \in 1..Len(recurring) :
         j < k => recurring[j].averageAmount >= recurring[k].averageAmount
    /\ \A k \in 1..Len(recurring) :
         \E t \in 1..Len(recTransactions) :
           /\ CountsAsRecurring(recTransactions[t])
           /\ Len(recurring[k].merchant) = Len(recTransactions[t].merchant)
           /\ Len(recurring[k].merchant) > 0
           /\ recurring[k].merchant[1] = ToUpperChar(ToLowerCase(recTransactions[t].merchant)[1])
           /\ Tail(recurring[k].merchant) = Tail(ToLowerCase(recTransactions[t].merchant))

\* four entries in descending order of amount from merchants met in
\* ascending order, one of them written 'Coffee Cart'
C20_Witness ==
  /\ recPc = "done"
  /\ Len(recurring) = 4
  /\ recurring[1].averageAmount > recurring[4].averageAmount
  /\ ToLowerCase(recurring[4].merchant) = ToLowerCase(recTransactions[1].merchant)
  /\ recurring[4].merchant = <<"C","o","f","f","e","e"," ","c","a","r","t">>
  /\ \E t \in 1..Len(recTransactions) : recTransactions[t].merchant = <<"C","o","f","f","e","e"," ","C","a","r","t">>

(***************************************************************************)
(* The merchant of a parsed row.                                           *)
(***************************************************************************)
SpacesIn(d) == {k \in 1..Len(d) : d[k] = " "}

\* the text before the second space
FirstTwoWords(d) ==
  SubSeq(d, 1, Least(SpacesIn(d) \ {Least(SpacesIn(d))}) - 1)

\* at most 3 space-separated words is at most 2 spaces
DerivedMerchant(d) ==
  IF Cardinality(SpacesIn(d)) <= 2 THEN d ELSE FirstTwoWords(d)

NonBlank(cell) == cell # Undefined /\ Trim(cell) # <<>>

\* C26: each loop step that adds a transaction gives it the merchant cell of
\* the row when that cell is present and non-blank, and otherwise the whole
\* description when it has at most 3 space-separated words, its first two
\* words joined by one space when it has more; and description 'Netflix
\* Monthly' with amount -15.99 and no category cell gives merchant 'Netflix
\* Monthly' and category 'Entertainment'.
C26_MerchantDerivation ==
  [][(/\ pc = "loop" /\ i < Len(lines) /\ i' = i + 1
      /\ Len(result'.transactions) = Len(result.transactions) + 1)
     =>
     /\ LastOf(result'.transactions).merchant =
          (IF NonBlank(CellOf(Trim(lines[i + 1]), hMerchant))
           THEN CellOf(Trim(lines[i + 1]), hMerchant)
           ELSE DerivedMerchant(LastOf(result'.transactions).description))
     /\ (/\ LastOf(result'.transactions).description = <<"N","e","t","f","l","i","x"," ","M","o","n","t","h","l","y">>
         /\ LastOf(result'.transactions).amount = -1599
         /\ ~NonBlank(CellOf(Trim(lines[i + 1]), hMerchant))
         /\ ~NonBlank(CellOf(Trim(lines[i + 1]), hCategory)))
        => /\ LastOf(result'.transactions).merchant = <<"N","e","t","f","l","i","x"," ","M","o","n","t","h","l","y">>
           /\ LastOf(result'.transactions).category = cEntertainment
    ]_vars

\* one file gave 'Netflix Monthly' from a 2-word description and 'Shell gas'
\* from a 4-word one
C26_Witness ==
  /\ pc = "done"
  /\ Len(result.transactions) = 2
  /\ \E j, k \in 1..2 :
       /\ result.transactions[j].description = <<"N","e","t","f","l","i","x"," ","M","o","n","t","h","l","y">>
       /\ result.transactions[j].merchant = <<"N","e","t","f","l","i","x"," ","M","o","n","t","h","l","y">>
       /\ result.transactions[j].category = cEntertainment
       /\ result.transactions[k].description = <<"S","h","e","l","l"," ","g","a","s"," ","s","t","a","t","i","o","n"," ","f","i","l","l">>
       /\ result.transactions[k].merchant = <<"S","h","e","l","l"," ","g","a","s">>

\* a merchant cell is used as written
C26_CellWitness ==
  /\ pc = "done"
  /\ \E k \in 1..Len(result.transactions) :
       /\ result.transactions[k].merchant = <<"L","a","n","d","l","o","r","d">>
       /\ result.transactions[k].description = <<"R","e","n","t",","," ","M","a","y">>

\* a 3-word description is kept whole
C26_ThreeWordWitness ==
  /\ pc = "done"
  /\ \E k \in 1..Len(result.transactions) :
       result.transactions[k].merchant = <<"P","a","y","c","h","e","c","k"," ","f","r","o","m"," ","A","c","m","e">>

(***************************************************************************)
(* The significance floor of the high-yield insight.                       *)
(***************************************************************************)
HighYieldAt == {k \in 1..Len(insights) : insights[k].type = tHighYield}

\* C30: with a non-empty transaction list and at least one account of type
\* 'savings' with balance > 1000, generateInsights gives exactly one
\* high-yield insight and its savingsAmount is at least 25.
C30_FloorNeverSuppresses ==
  (/\ insPc = "done"
   /\ Len(insTransactions) > 0
   /\ \E k \in 1..Len(insAccounts) :
        insAccounts[k].type = <<"s","a","v","i","n","g","s">> /\ insAccounts[k].balance > 100000)
  => /\ Cardinality(HighYieldAt) = 1
     /\ \A k \in HighYieldAt : insights[k].savingsAmount >= 25

\* a single savings account of 1000.01 gives the insight with 25
C30_Witness ==
  /\ insPc = "done"
  /\ Len(insTransactions) > 0
  /\ Len(SelectSeq(insAccounts, LAMBDA a : a.type = <<"s","a","v","i","n","g","s">>)) = 1
  /\ \E k \in 1..Len(insAccounts) : insAccounts[k].balance = 100001
  /\ \E k \in HighYieldAt : insights[k].savingsAmount = 25

(***************************************************************************)
(* Export followed by import.                                              *)
(***************************************************************************)
HasChar(s, c) == \E k \in 1..Len(s) : s[k] = c

\* the k-th parsed transaction carries what the k-th exported one held
SameRecord(parsed, original) ==
  /\ parsed.amount = original.amount
  /\ parsed.description = original.description
  /\ parsed.category = original.category
  /\ parsed.merchant = original.merchant
  /\ parsed.date.valid
  /\ parsed.date.y = original.date.y
  /\ parsed.date.m = original.date.m
  /\ parsed.date.d = original.date.d

RoundTrips ==
  /\ result.errors = <<>>
  /\ Len(result.transactions) = Len(csvTransactions)
  /\ \A k \in 1..Len(csvTransactions) :
       SameRecord(result.transactions[k], csvTransactions[k])

\* C22: the parse of transactionsToCSV(txs), for txs whose descriptions hold
\* no comma, gives no error and as many transactions as txs, in the same
\* order, each with the amount, description, category and merchant of the
\* original and the same day.
C22_RoundTrip ==
  (/\ pc = "done"
   /\ \A k \in 1..Len(csvTransactions) : ~HasChar(csvTransactions[k].description, ","))
  => RoundTrips

\* what does hold: the round trip of records whose description and merchant
\* hold no double quote and whose merchant is not empty, commas included
RoundTripWithoutQuotes ==
  (/\ pc = "done"
   /\ \A k \in 1..Len(csvTransactions) :
        /\ ~HasChar(csvTransactions[k].description, "\"")
        /\ ~HasChar(csvTransactions[k].merchant, "\"")
        /\ csvTransactions[k].merchant # <<>>)
  => RoundTrips

C23_NamesUnique ==
  \A j \in 1..Len(storage.categories) : \A k \in 1..Len(storage.categories) :
    j # k => storage.categories[j].name # storage.categories[k].name

(***************************************************************************)
(* C24: when POST /api/plaid/sync-account/:id is answered 200, the stored  *)
(* balance of the account is the balance the aggregator reports then.      *)
(***************************************************************************)
SyncAnswered200 ==
  /\ requests'.response.n # requests.response.n
  /\ requests'.response.route = "POST /api/plaid/sync-account/:id"
  /\ requests'.response.status = 200

C24_BalanceAfterSync ==
  [][SyncAnswered200 =>
       \A k \in 1..Len(storage'.accounts) :
         storage'.accounts[k].id = requests'.response.id
           => storage'.accounts[k].balance = BalanceText(plaid'.balance)]_vars

(***************************************************************************)
(* C25: insights are append-only and never deduplicated: a step leaves the *)
(* stored insights alone or appends one row whose id no stored row has,    *)
(* and every POST /api/insights appends one; so the same insight persisted *)
(* k times is stored k times and the number of insights never decreases.   *)
(***************************************************************************)
InsightAppended ==
  /\ Len(storage'.insights) = Len(storage.insights) + 1
  /\ SubSeq(storage'.insights, 1, Len(storage.insights)) = storage.insights
  /\ \A k \in 1..Len(storage.insights) :
       storage.insights[k].id # storage'.insights[Len(storage'.insights)].id

InsightPosted ==
  /\ requests'.response.n # requests.response.n
  /\ requests'.response.route = "POST /api/insights"

C25_AppendOnly ==
  [][/\ storage'.insights = storage.insights \/ InsightAppended
     /\ InsightPosted => InsightAppended]_vars

\* the sample subscription insight and two more copies of it, posted later
C25_Witness ==
  /\ requests.response.route = "POST /api/insights"
  /\ Cardinality({k \in 1..Len(storage.insights) :
                    /\ storage.insights[k].type = tSubscription
                    /\ storage.insights[k].savingsAmount = 14}) = 3

(***************************************************************************)
(* C27: the aggregator sync never stores a duplicate: no two stored        *)
(* transactions have the same non-null plaidTransactionId.                 *)
(***************************************************************************)
C27_NoDuplicatePlaidTransaction ==
  \A j \in 1..Len(storage.transactions) : \A k \in 1..Len(storage.transactions) :
    (j # k /\ storage.transactions[j].plaidTransactionId # NoText)
      => storage.transactions[j].plaidTransactionId # storage.transactions[k].plaidTransactionId

(***************************************************************************)
(* C28: a Plaid item is deleted exactly when its last connected account is *)
(* disconnected: when a disconnect request is answered 200, the item of    *)
(* the account is still referenced by an account or is no longer stored,   *)
(* and no connected account references an item that is not stored.         *)
(***************************************************************************)
DisconnectAnswered200 ==
  /\ requests'.response.n # requests.response.n
  /\ requests'.response.route = "POST /api/plaid/disconnect-account/:id"
  /\ requests'.response.status = 200

C28_ItemDeletedWithLastAccount ==
  [][DisconnectAnswered200 =>
       /\ Len(RowsWithId(storage'.plaidItems, requests'.response.plaidItem)) > 0
            => Len(PlaidAccountsOf(storage', requests'.response.plaidItem)) > 0
       /\ \A k \in 1..Len(storage'.accounts) :
            storage'.accounts[k].isPlaidConnected
              => Len(RowsWithId(storage'.plaidItems, storage'.accounts[k].plaidItemId)) > 0]_vars

(***************************************************************************)
(* C29: when POST /api/plaid/exchange-token is answered 500, the store     *)
(* holds no Plaid item and no account that the request created.            *)
(***************************************************************************)
ExchangeAnswered500 ==
  /\ requests'.response.n # requests.response.n
  /\ requests'.response.route = "POST /api/plaid/exchange-token"
  /\ requests'.response.status = 500

C29_FailedLinkLeavesNothing ==
  [][(ExchangeAnswered500 /\ requests'.response.plaidItem # NoId) =>
       /\ Len(RowsWithId(storage'.plaidItems, requests'.response.plaidItem)) = 0
       /\ Len(PlaidAccountsOf(storage', requests'.response.plaidItem)) = 0]_vars
====
